---- MODULE Spec2Model ----
(***************************************************************************)
(* Storage orchestration of the CRM extractor: the lock kept in the store, *)
(* the retrying read-modify-write of insertRecordsWithDeduplication, the   *)
(* deduplication merge, removeRecord and clearAllRecords                   *)
(* (CRMStorageOrchestrator, src/src/background/service-worker.ts).         *)
(***************************************************************************)
EXTENDS Integers, Sequences, FiniteSets, TLC

\* ------------------------------------------------------------------ bounds
MaxLen == 2             \* longest batch / collection drawn as an input
MaxExtractedAt == 2     \* extractedAt values 1..MaxExtractedAt

\* --------------------------------------------------------------- constants
lockTimeout == 30000
RETRY_ATTEMPTS == 3
RETRY_DELAY_MS == 1000

\* -------------------------------------------------------------------- data
Ids == {"a", "b"}
Names == {"X", "Y"}
EntityTypes == {"contacts", "deals", "tasks"}

Records == [id : Ids, extractedAt : 1..MaxExtractedAt, name : Names]

RECURSIVE SeqsUpTo(_, _)
SeqsUpTo(S, n) ==
    IF n = 0 THEN {<<>>}
    ELSE LET shorter == SeqsUpTo(S, n - 1)
         IN  shorter \cup {Append(s, x) : s \in {t \in shorter : Len(t) = n - 1}, x \in S}

IdsOf(records) == {records[i].id : i \in DOMAIN records}

UniqueIds(records) ==
    \A i, j \in DOMAIN records : records[i].id = records[j].id => i = j

DEFAULT_STORAGE_STATE ==
    [contacts |-> <<>>, deals |-> <<>>, tasks |-> <<>>,
     lastSync |-> 0, syncInProgress |-> FALSE]

\* ------------------------------------------------- the Map of the merge
\* A JavaScript Map as the sequence of its values in insertion order.
MapHas(recordMap, id) == \E i \in DOMAIN recordMap : recordMap[i].id = id

MapGet(recordMap, id) ==
    recordMap[CHOOSE i \in DOMAIN recordMap : recordMap[i].id = id]

\* Mutant of MapSet: every set adds an entry, as a list push would.
MapSetAlwaysAppends(recordMap, record) == Append(recordMap, record)

\* Mutant of MapSet: a present key is deleted and set again, so it moves to the end.
MapSetMovesToEnd(recordMap, record) ==
    Append(SelectSeq(recordMap, LAMBDA r : r.id # record.id), record)

\* Map.set: a present key keeps its position, a new key goes to the end.
MapSet(recordMap, record) ==
    IF MapHas(recordMap, record.id)
    THEN [i \in DOMAIN recordMap |->
            IF recordMap[i].id = record.id THEN record ELSE recordMap[i]]
    ELSE Append(recordMap, record)

\* Mutant of SeedExisting: the Map is not seeded with the existing records.
SeedNothing(recordMap, existingRecords) == recordMap

RECURSIVE SeedExisting(_, _)
SeedExisting(recordMap, existingRecords) ==
    IF existingRecords = <<>> THEN recordMap
    ELSE SeedExisting(MapSet(recordMap, Head(existingRecords)), Tail(existingRecords))

\* Mutant of IsNewer: a tie replaces the stored record.
IsNewerOrSame(newRecord, existingRecord) ==
    newRecord.extractedAt >= existingRecord.extractedAt

\* Mutant of IsNewer: the incoming record always replaces the stored one.
IsAnyVersion(newRecord, existingRecord) == TRUE

\* The comparison that lets an incoming record replace the stored one.
IsNewer(newRecord, existingRecord) ==
    newRecord.extractedAt > existingRecord.extractedAt

MergeOne(recordMap, newRecord) ==
    IF ~MapHas(recordMap, newRecord.id) THEN MapSet(recordMap, newRecord)
    ELSE IF IsNewer(newRecord, MapGet(recordMap, newRecord.id))
         THEN MapSet(recordMap, newRecord)
         ELSE recordMap

RECURSIVE MergeIncoming(_, _)
MergeIncoming(recordMap, newRecords) ==
    IF newRecords = <<>> THEN recordMap
    ELSE MergeIncoming(MergeOne(recordMap, Head(newRecords)), Tail(newRecords))

performDeduplication(existingRecords, newRecords) ==
    MergeIncoming(SeedExisting(<<>>, existingRecords), newRecords)

\* ------------------------------------------------------------------ state
Writers == {"w1", "w2"}     \* browser contexts that call the orchestrator

VARIABLES
    crmData,        \* chrome.storage.local[CRM_DATA]: <<>> (no value) or <<document>>
    syncLock,       \* chrome.storage.local[SYNC_LOCK]: 0 (no value) or the timestamp
    lockOwner,      \* history: the context whose acquire wrote syncLock, or "none"
    now,            \* Date.now()
    ticks,          \* clock advances so far
    faultsLeft,     \* store calls that may still fail in this run
    calls,          \* public operations started so far (counted up to MaxCalls)
    ctx,            \* per context: position and locals of the operation it runs
    hist,           \* history: what the operations have done so far
    mExisting,      \* merge on its own: the existing collection
    mIncoming,      \* merge on its own: the incoming batch
    mMerged,        \* merge on its own: the result
    mOther,         \* merge on its own: a second incoming batch
    mAgain,         \* merge on its own: the result merged with the same batch again
    mSwapped,       \* merge on its own: the result of the two batches the other way round
    mPhase,         \* "off" | "input" | "merged" | "again" | "swapped"
    notify,         \* the background worker: queued events, handlers, broadcasts
    page            \* a page's extraction agent: isExtracting and its extractions

mvars == <<mExisting, mIncoming, mMerged, mOther, mAgain, mSwapped, mPhase>>
pvars == <<crmData, syncLock, lockOwner, now, ticks, faultsLeft, calls, ctx, hist, notify,
          page>>
vars == <<crmData, syncLock, lockOwner, now, ticks, faultsLeft, calls, ctx, hist,
          mExisting, mIncoming, mMerged, mOther, mAgain, mSwapped, mPhase, notify, page>>

\* ------------------------------------------------- results and locals
MaxTicks == 2           \* clock advances in one run
MaxFailures == 1        \* failing store calls in one run
MaxCalls == 2           \* public operations started in one run
\* The clock is followed up to this reading: every clock advance of a run, then a
\* whole lock timeout of retries, and one timeout more.
MaxClock == 1 + (MaxTicks + 2) * lockTimeout

NoMessage == "<null>"   \* errorMessage: null
StoreError == "store error"     \* error.message of a rejected chrome.storage call
TypeErrorMessage == "TypeError" \* error.message of a property read on null
Uncaught == "<uncaught>"        \* the operation's promise rejected: no result value

PNull == [kind |-> "null", value |-> 0]
PUndefined == [kind |-> "undefined", value |-> 0]
PNumber(n) == [kind |-> "number", value |-> n]
PDocument(data) == [kind |-> "document", value |-> 0, data |-> data]

NoResult == [op |-> "none", success |-> FALSE, payload |-> PNull, errorMessage |-> NoMessage]
Success(op, payload) ==
    [op |-> op, success |-> TRUE, payload |-> payload, errorMessage |-> NoMessage]
\* Mutant of Failure: a failure result without a message.
FailureWithoutMessage(op, message) ==
    [op |-> op, success |-> FALSE, payload |-> PNull, errorMessage |-> NoMessage]

Failure(op, message) ==
    [op |-> op, success |-> FALSE, payload |-> PNull, errorMessage |-> message]

\* An exception left the operation: its caller gets no result.
Rejected(op) ==
    [op |-> op, success |-> FALSE, payload |-> PNull, errorMessage |-> Uncaught]

\* A batch entry that is null at run time: reading its id throws a TypeError.
NullRecord == [id |-> "null", extractedAt |-> 0, name |-> "null"]
Throws(newRecords) == \E i \in DOMAIN newRecords : newRecords[i] = NullRecord

BlankCtx ==
    [pc |-> "idle", op |-> "none",
     entityType |-> "contacts", newRecords |-> <<>>, recordId |-> "a",
     attemptCount |-> 0,
     acqData |-> DEFAULT_STORAGE_STATE, currentTime |-> 0,
     currentData |-> DEFAULT_STORAGE_STATE, updatedData |-> DEFAULT_STORAGE_STATE,
     persistOk |-> TRUE, caught |-> NoMessage,
     relData |-> DEFAULT_STORAGE_STATE, relFrom |-> "none",
     wakeAt |-> 0, holding |-> FALSE, result |-> NoResult,
     prevOp |-> "none",     \* history: the operation this context finished last
     hadLock |-> FALSE,     \* history: an acquisition of the running insert succeeded
     lockedAt |-> 0,        \* history: the timestamp written by the acquisition held
     acquireCalls |-> 0]    \* history: acquireSyncLock calls of the running insert

\* The operation resolves: its locals die, the caller sees the result.
Return(c, res) ==
    [BlankCtx EXCEPT !.holding = c.holding, !.lockedAt = c.lockedAt, !.result = res,
                     !.prevOp = c.prevOp]

Max(a, b) == IF a > b THEN a ELSE b

\* Mutant of GetOrDefault: a missing document reads as one with a sync in progress.
GetOrBusy(stored) ==
    IF stored = <<>> THEN [DEFAULT_STORAGE_STATE EXCEPT !.syncInProgress = TRUE]
    ELSE stored[1]

\* retrieveAllData's payload: storedData ?? { ...DEFAULT_STORAGE_STATE }
GetOrDefault(stored) == IF stored = <<>> THEN DEFAULT_STORAGE_STATE ELSE stored[1]

\* Mutant of LockBlocks: the comparison is turned around.
LockBlocksWhenOld(existingLock, currentTime) ==
    existingLock # 0 /\ (currentTime - existingLock) > lockTimeout

\* Mutant of LockBlocks: a stored lock blocks whatever its age.
LockBlocksForever(existingLock, currentTime) == existingLock # 0

\* Mutant of LockBlocks: a lock whose age equals the timeout still blocks.
LockBlocksAtTimeout(existingLock, currentTime) ==
    existingLock # 0 /\ (currentTime - existingLock) <= lockTimeout

\* The contention test of acquireSyncLock.
LockBlocks(existingLock, currentTime) ==
    existingLock # 0 /\ (currentTime - existingLock) < lockTimeout

\* Mutant of InsertedCount: the size of the merged collection is reported.
InsertedCountIsMergedSize(deduplicatedRecords, existingRecords) ==
    Len(deduplicatedRecords)

\* The count insertRecordsWithDeduplication reports.
InsertedCount(deduplicatedRecords, existingRecords) ==
    Max(0, Len(deduplicatedRecords) - Len(existingRecords))

LockFailureMessage == "Failed to acquire sync lock after maximum retries"

\* Mutant of LoopHead: the loop admits one attempt more.
LoopHeadOneMore(c) ==
    IF c.attemptCount <= RETRY_ATTEMPTS
    THEN [c EXCEPT !.pc = "acqGetDoc", !.acquireCalls = @ + 1]
    ELSE Return(c, Failure("insert", LockFailureMessage))

\* while (attemptCount < maxRetries) { acquireSyncLock() ... } return lock failure
LoopHead(c) ==
    IF c.attemptCount < RETRY_ATTEMPTS
    THEN [c EXCEPT !.pc = "acqGetDoc", !.acquireCalls = @ + 1]
    ELSE Return(c, Failure("insert", LockFailureMessage))

\* What runs when acquireSyncLock resolves with lockAcquired.
AfterAcquire(c, lockAcquired) ==
    IF c.op = "acquire"
    THEN Return([c EXCEPT !.holding = c.holding \/ lockAcquired,
                          !.lockedAt = IF lockAcquired THEN c.currentTime ELSE @],
                [op |-> "acquire", success |-> lockAcquired,
                 payload |-> PNull, errorMessage |-> NoMessage])
    ELSE IF ~lockAcquired
         THEN [c EXCEPT !.attemptCount = @ + 1, !.pc = "delay",
                        !.wakeAt = now + RETRY_DELAY_MS,
                        !.acqData = DEFAULT_STORAGE_STATE, !.currentTime = 0]
         ELSE [c EXCEPT !.pc = "insGetDoc", !.holding = TRUE, !.hadLock = TRUE,
                        !.lockedAt = c.currentTime,
                        !.acqData = DEFAULT_STORAGE_STATE, !.currentTime = 0]

\* Mutant of AfterRelease: a caught exception is retried without being counted.
AfterReleaseUncounted(c) ==
    CASE c.relFrom = "direct" ->
            Return(c, Success("release", PUndefined))
      [] c.relFrom = "readFail" ->
            Return(c, Failure("insert", "Failed to retrieve current data for deduplication"))
      [] c.relFrom = "afterPersist" ->
            IF ~c.persistOk
            THEN Return(c, Failure("insert", StoreError))
            ELSE Return(c, Success("insert",
                    PNumber(InsertedCount(c.updatedData[c.entityType],
                                          c.currentData[c.entityType]))))
      [] c.relFrom = "catch" ->
            [c EXCEPT !.pc = "delay",
                      !.wakeAt = now + RETRY_DELAY_MS,
                      !.relData = DEFAULT_STORAGE_STATE, !.relFrom = "none",
                      !.currentData = DEFAULT_STORAGE_STATE,
                      !.updatedData = DEFAULT_STORAGE_STATE]

\* What runs when releaseSyncLock resolves, by the place that called it.
AfterRelease(c) ==
    CASE c.relFrom = "direct" ->
            Return(c, Success("release", PUndefined))
      [] c.relFrom = "readFail" ->
            Return(c, Failure("insert", "Failed to retrieve current data for deduplication"))
      [] c.relFrom = "afterPersist" ->
            IF ~c.persistOk
            THEN Return(c, Failure("insert", StoreError))
            ELSE Return(c, Success("insert",
                    PNumber(InsertedCount(c.updatedData[c.entityType],
                                          c.currentData[c.entityType]))))
      [] c.relFrom = "catch" ->
            IF c.attemptCount + 1 >= RETRY_ATTEMPTS
            THEN Return(c, Failure("insert", c.caught))
            ELSE [c EXCEPT !.attemptCount = @ + 1, !.pc = "delay",
                           !.wakeAt = now + RETRY_DELAY_MS,
                           !.relData = DEFAULT_STORAGE_STATE, !.relFrom = "none",
                           !.currentData = DEFAULT_STORAGE_STATE,
                           !.updatedData = DEFAULT_STORAGE_STATE]

\* ------------------------------------------------- change propagation
\* The background worker as the protocol sees it. on: the worker is part of the run;
\* changed: chrome.storage.onChanged events for the document key not yet handled;
\* complete: EXTRACTION_COMPLETE messages not yet handled; awaiting: a message
\* handler awaits the operation it called; response: what sendResponse was given;
\* listener: a receiver of runtime messages is attached; last: how the latest
\* STORAGE_UPDATED broadcast ended; owed (history): a write of insert, remove or
\* clear changed the document and no broadcast was sent since.
NoResponse == [sent |-> FALSE, success |-> FALSE, errorMessage |-> NoMessage]
Response(success, errorMessage) ==
    [sent |-> TRUE, success |-> success, errorMessage |-> errorMessage]

NotifyIdle(on) ==
    [on |-> on, changed |-> 0, complete |-> 0, awaiting |-> FALSE,
     response |-> NoResponse, listener |-> FALSE, last |-> "none", owed |-> FALSE]

NotifyOff == notify = NotifyIdle(FALSE)

MutatingWrites == {"insSetDoc", "remSetDoc", "clearSet"}

\* chrome.storage.onChanged: a set that changes the value stored under the document
\* key queues one event for the worker's listener.
Observed(c, newDoc) ==
    IF notify.on /\ newDoc # crmData
    THEN [notify EXCEPT !.changed = @ + 1,
                        !.owed = @ \/ c.pc \in MutatingWrites]
    ELSE notify

\* A message handler has called an operation and awaits its result.
Awaiting(n) ==
    IF n.on THEN [n EXCEPT !.awaiting = TRUE, !.response = NoResponse] ELSE n

\* ------------------------------------------------- the extraction agent
\* A page's ContentScriptOrchestrator. on: the agent is part of the run; isExtracting:
\* its flag; pc: per invocation of executeExtraction, "idle", "harvesting" (awaiting
\* the harvest) or "saving" (awaiting the insert); entityType: the view it detected;
\* triggers: TRIGGER_EXTRACTION messages received; response: the latest sendResponse.
PageIdle(on) ==
    [on |-> on, isExtracting |-> FALSE,
     pc |-> [w \in Writers |-> "idle"],
     entityType |-> [w \in Writers |-> "contacts"],
     triggers |-> 0, response |-> NoResponse]

PageOff == page = PageIdle(FALSE)

\* The harvest of invocation w has handed its batch to insertRecordsWithDeduplication.
Saving(w, p) ==
    IF p.on /\ p.pc[w] = "harvesting" THEN [p EXCEPT !.pc[w] = "saving"] ELSE p

\* A store call either takes effect or rejects.
Outcomes == IF faultsLeft > 0 THEN {TRUE, FALSE} ELSE {TRUE}

\* History kept for the properties: the <<entityType, id>> of every batch whose insert
\* returned success, whether a removeRecord or clearAllRecords has written, and the
\* contexts whose running operation had its removal of the lock key rejected, and
\* per context the store calls of its running operation that were rejected.
NoHistory ==
    [reported |-> {}, erased |-> FALSE, removeFailed |-> {},
     failedAt |-> [w \in Writers |-> {}],
     inserted |-> {},   \* <<entityType, id, extractedAt>> of the batches reported
     gone |-> {}]       \* <<entityType, id>> removed with success, not inserted since

Recorded(w, c, newCtx, newDoc, ok) ==
    [hist EXCEPT
        !.removeFailed = IF c.pc = "relRemove" /\ ~ok THEN @ \cup {w} ELSE @,
        !.failedAt[w] = IF newCtx.pc = "idle" THEN {}
                        ELSE IF ~ok THEN @ \cup {c.pc} ELSE @,
        !.reported =
            IF newCtx.pc = "idle" /\ newCtx.result.op = "insert" /\ newCtx.result.success
            THEN @ \cup {<<c.entityType, id>> : id \in IdsOf(c.newRecords)}
            ELSE @,
        !.inserted =
            IF newCtx.pc = "idle" /\ newCtx.result.op = "insert" /\ newCtx.result.success
            THEN @ \cup {<<c.entityType, c.newRecords[i].id, c.newRecords[i].extractedAt>> :
                            i \in DOMAIN c.newRecords}
            ELSE @,
        !.gone =
            IF ~ok THEN @
            ELSE IF c.pc = "remSetDoc"
            THEN @ \cup {<<c.entityType, id>> :
                            id \in {c.recordId} \cap IdsOf(GetOrDefault(crmData)[c.entityType])}
            ELSE IF c.pc = "clearSet"
            THEN @ \cup UNION {{<<entityType, id>> :
                                   id \in IdsOf(GetOrDefault(crmData)[entityType])} :
                               entityType \in EntityTypes}
            ELSE IF c.pc = "insSetDoc"
            THEN @ \ {<<c.entityType, id>> : id \in IdsOf(c.newRecords)}
            ELSE @,
        !.erased = @ \/ (c.op \in {"remove", "clear", "persist"} /\ newDoc # crmData)]

\* One step of context w: its locals, the store, and the bookkeeping.
Step(w, newCtx, newDoc, newLock, newOwner, ok) ==
    /\ ctx' = [ctx EXCEPT ![w] = newCtx]
    /\ crmData' = newDoc
    /\ syncLock' = newLock
    /\ lockOwner' = newOwner
    /\ faultsLeft' = IF ok THEN faultsLeft ELSE faultsLeft - 1
    /\ hist' = Recorded(w, ctx[w], newCtx, newDoc, ok)
    /\ notify' = Observed(ctx[w], newDoc)
    /\ page' = page
    /\ UNCHANGED <<now, ticks, calls, mvars>>

EmptyStore == crmData = <<>> /\ syncLock = 0 /\ lockOwner = "none"

\* The store as a context that was destroyed inside its critical section left it.
LeftLocked ==
    /\ crmData = <<[DEFAULT_STORAGE_STATE EXCEPT !.syncInProgress = TRUE]>>
    /\ syncLock = now
    /\ lockOwner = "gone"

ProtocolIdle ==
    /\ now = 1
    /\ ticks = 0
    /\ calls = 0
    /\ ctx = [w \in Writers |-> BlankCtx]
    /\ hist = NoHistory

\* --------------------------------------------------- public operations
Idle(w) == ctx[w].pc = "idle"

Begin(w, started) ==
    /\ ctx' = [ctx EXCEPT ![w] = [started EXCEPT !.holding = ctx[w].holding,
                                                 !.lockedAt = ctx[w].lockedAt,
                                                 !.prevOp = ctx[w].result.op]]
    /\ calls' = IF calls < MaxCalls THEN calls + 1 ELSE calls
    /\ hist' = [hist EXCEPT !.removeFailed = @ \ {w}]
    /\ notify' = Awaiting(notify)
    /\ page' = Saving(w, page)
    /\ UNCHANGED <<crmData, syncLock, lockOwner, now, ticks, faultsLeft, mvars>>

CallInsert(w, entityType, newRecords) ==
    /\ Idle(w)
    /\ Begin(w, LoopHead([BlankCtx EXCEPT !.op = "insert", !.entityType = entityType,
                                          !.newRecords = newRecords]))

CallAcquire(w) ==
    /\ Idle(w)
    /\ Begin(w, [BlankCtx EXCEPT !.op = "acquire", !.pc = "acqGetDoc"])

CallRelease(w) ==
    /\ Idle(w)
    /\ Begin(w, [BlankCtx EXCEPT !.op = "release", !.pc = "relRemove",
                                 !.relFrom = "direct"])

CallRemove(w, entityType, recordId) ==
    /\ Idle(w)
    /\ Begin(w, [BlankCtx EXCEPT !.op = "remove", !.pc = "remGetDoc",
                                 !.entityType = entityType, !.recordId = recordId])

CallClear(w) ==
    /\ Idle(w)
    /\ Begin(w, [BlankCtx EXCEPT !.op = "clear", !.pc = "clearSet"])

CallRetrieve(w) ==
    /\ Idle(w)
    /\ Begin(w, [BlankCtx EXCEPT !.op = "retrieve", !.pc = "retGet"])

CallPersist(w, updatedData) ==
    /\ Idle(w)
    /\ Begin(w, [BlankCtx EXCEPT !.op = "persist", !.pc = "perSet",
                                 !.updatedData = updatedData])

\* ------------------------------------------- retrieveAllData, persistData
RetGet(w) ==
    /\ ctx[w].pc = "retGet"
    /\ \E ok \in Outcomes :
         Step(w, IF ok THEN Return(ctx[w], Success("retrieve",
                                                   PDocument(GetOrDefault(crmData))))
                       ELSE Return(ctx[w], Failure("retrieve", StoreError)),
              crmData, syncLock, lockOwner, ok)

PerSet(w) ==
    /\ ctx[w].pc = "perSet"
    /\ \E ok \in Outcomes :
         Step(w, IF ok THEN Return(ctx[w], Success("persist", PUndefined))
                       ELSE Return(ctx[w], Failure("persist", StoreError)),
              IF ok THEN <<ctx[w].updatedData>> ELSE crmData,
              syncLock, lockOwner, ok)

\* ------------------------------------------------------ acquireSyncLock
AcqGetDoc(w) ==
    /\ ctx[w].pc = "acqGetDoc"
    /\ \E ok \in Outcomes :
         Step(w, IF ok THEN [ctx[w] EXCEPT !.acqData = GetOrDefault(crmData),
                                           !.pc = "acqGetLock"]
                       ELSE AfterAcquire(ctx[w], FALSE),
              crmData, syncLock, lockOwner, ok)

\* Mutant of AcqGetLock: a blocked acquisition renews the stored timestamp.
AcqGetLockExtendsLease(w) ==
    /\ ctx[w].pc = "acqGetLock"
    /\ \E ok \in Outcomes :
         Step(w, IF ok /\ ~LockBlocks(syncLock, now)
                 THEN [ctx[w] EXCEPT !.currentTime = now, !.pc = "acqSetLock"]
                 ELSE AfterAcquire(ctx[w], FALSE),
              crmData, IF ok /\ LockBlocks(syncLock, now) THEN now ELSE syncLock,
              lockOwner, ok)

AcqGetLock(w) ==
    /\ ctx[w].pc = "acqGetLock"
    /\ \E ok \in Outcomes :
         Step(w, IF ok /\ ~LockBlocks(syncLock, now)
                 THEN [ctx[w] EXCEPT !.currentTime = now, !.pc = "acqSetLock"]
                 ELSE AfterAcquire(ctx[w], FALSE),
              crmData, syncLock, lockOwner, ok)

\* Mutant of AcqSetLock: a rejected set of the lock key is ignored.
AcqSetLockFailsOpen(w) ==
    /\ ctx[w].pc = "acqSetLock"
    /\ \E ok \in Outcomes :
         IF ok
         THEN Step(w, [ctx[w] EXCEPT !.pc = "acqSetDoc"],
                   crmData, ctx[w].currentTime, w, ok)
         ELSE Step(w, [ctx[w] EXCEPT !.pc = "acqSetDoc"], crmData, syncLock, lockOwner, ok)

AcqSetLock(w) ==
    /\ ctx[w].pc = "acqSetLock"
    /\ \E ok \in Outcomes :
         IF ok
         THEN Step(w, [ctx[w] EXCEPT !.pc = "acqSetDoc"],
                   crmData, ctx[w].currentTime, w, ok)
         ELSE Step(w, AfterAcquire(ctx[w], FALSE), crmData, syncLock, lockOwner, ok)

AcqSetDoc(w) ==
    /\ ctx[w].pc = "acqSetDoc"
    /\ \E ok \in Outcomes :
         Step(w, AfterAcquire(ctx[w], TRUE),
              IF ok THEN <<[ctx[w].acqData EXCEPT !.syncInProgress = TRUE]>> ELSE crmData,
              syncLock, lockOwner, ok)

\* ------------------------------------------------------ releaseSyncLock
RelRemove(w) ==
    /\ ctx[w].pc = "relRemove"
    /\ \E ok \in Outcomes :
         IF ok
         THEN Step(w, [ctx[w] EXCEPT !.pc = "relGetDoc", !.holding = FALSE,
                                     !.lockedAt = 0],
                   crmData, 0, "none", ok)
         ELSE Step(w, AfterRelease([ctx[w] EXCEPT !.holding = FALSE, !.lockedAt = 0]),
                   crmData, syncLock, lockOwner, ok)

RelGetDoc(w) ==
    /\ ctx[w].pc = "relGetDoc"
    /\ \E ok \in Outcomes :
         Step(w, IF ok THEN [ctx[w] EXCEPT !.relData = GetOrDefault(crmData),
                                           !.pc = "relSetDoc"]
                       ELSE AfterRelease(ctx[w]),
              crmData, syncLock, lockOwner, ok)

\* Mutant of RelSetDoc: the release writes a document with lastSync reset.
RelSetDocResetsSync(w) ==
    /\ ctx[w].pc = "relSetDoc"
    /\ \E ok \in Outcomes :
         Step(w, AfterRelease(ctx[w]),
              IF ok THEN <<[ctx[w].relData EXCEPT !.syncInProgress = FALSE, !.lastSync = 0]>>
                    ELSE crmData,
              syncLock, lockOwner, ok)

RelSetDoc(w) ==
    /\ ctx[w].pc = "relSetDoc"
    /\ \E ok \in Outcomes :
         Step(w, AfterRelease(ctx[w]),
              IF ok THEN <<[ctx[w].relData EXCEPT !.syncInProgress = FALSE]>> ELSE crmData,
              syncLock, lockOwner, ok)

\* --------------------------------------- insertRecordsWithDeduplication
\* delayExecution(RETRY_DELAY_MS): the timer fires once the delay has elapsed, so the
\* clock reads at least wakeAt when the loop goes on.
Delay(w) ==
    /\ ctx[w].pc = "delay"
    /\ Max(now, ctx[w].wakeAt) <= MaxClock
    /\ ctx' = [ctx EXCEPT ![w] = LoopHead([ctx[w] EXCEPT !.wakeAt = 0])]
    /\ now' = Max(now, ctx[w].wakeAt)
    /\ UNCHANGED <<crmData, syncLock, lockOwner, ticks, faultsLeft, calls, hist, mvars,
                   notify, page>>

\* Mutant of OnReadFailure: the failure is returned with the lock still held.
OnReadFailureNoRelease(c) ==
    Return(c, Failure("insert", "Failed to retrieve current data for deduplication"))

\* Mutant of OnReadFailure: the failed read is handled as a thrown exception is.
OnReadFailureRetries(c) ==
    [c EXCEPT !.pc = "relRemove", !.relFrom = "catch", !.caught = StoreError]

\* insert: the document read after the acquisition failed.
OnReadFailure(c) == [c EXCEPT !.pc = "relRemove", !.relFrom = "readFail"]

InsGetDoc(w) ==
    /\ ctx[w].pc = "insGetDoc"
    /\ \E ok \in Outcomes :
         LET c == ctx[w]
             data == GetOrDefault(crmData)
         IN  Step(w,
                  IF ~ok THEN OnReadFailure(c)
                  ELSE IF Throws(c.newRecords)
                  THEN [c EXCEPT !.currentData = data, !.caught = TypeErrorMessage,
                                 !.pc = "relRemove", !.relFrom = "catch"]
                  ELSE [c EXCEPT !.currentData = data,
                                 !.updatedData =
                                    [data EXCEPT ![c.entityType] =
                                        performDeduplication(data[c.entityType], c.newRecords),
                                                 !.lastSync = now],
                                 !.pc = "insSetDoc"],
                  crmData, syncLock, lockOwner, ok)

\* Mutant of InsSetDoc: a rejected write is handled as a thrown exception is.
InsSetDocRetries(w) ==
    /\ ctx[w].pc = "insSetDoc"
    /\ \E ok \in Outcomes :
         Step(w, IF ok THEN [ctx[w] EXCEPT !.persistOk = ok, !.pc = "relRemove",
                                           !.relFrom = "afterPersist"]
                       ELSE [ctx[w] EXCEPT !.caught = StoreError, !.pc = "relRemove",
                                           !.relFrom = "catch"],
              IF ok THEN <<ctx[w].updatedData>> ELSE crmData,
              syncLock, lockOwner, ok)

\* Mutant of InsSetDoc: the written document holds the merged collection only.
InsSetDocDropsOthers(w) ==
    /\ ctx[w].pc = "insSetDoc"
    /\ \E ok \in Outcomes :
         Step(w, [ctx[w] EXCEPT !.persistOk = ok, !.pc = "relRemove",
                                !.relFrom = "afterPersist"],
              IF ok THEN <<[DEFAULT_STORAGE_STATE EXCEPT
                               ![ctx[w].entityType] = ctx[w].updatedData[ctx[w].entityType],
                               !.lastSync = ctx[w].updatedData.lastSync,
                               !.syncInProgress = ctx[w].updatedData.syncInProgress]>>
                    ELSE crmData,
              syncLock, lockOwner, ok)

InsSetDoc(w) ==
    /\ ctx[w].pc = "insSetDoc"
    /\ \E ok \in Outcomes :
         Step(w, [ctx[w] EXCEPT !.persistOk = ok, !.pc = "relRemove",
                                !.relFrom = "afterPersist"],
              IF ok THEN <<ctx[w].updatedData>> ELSE crmData,
              syncLock, lockOwner, ok)

\* --------------------------------------------------------- removeRecord
\* Mutant of RemGetDoc: the filtered collection is written without the length test.
RemGetDocAlwaysWrites(w) ==
    /\ ctx[w].pc = "remGetDoc"
    /\ \E ok \in Outcomes :
         LET c == ctx[w]
             data == GetOrDefault(crmData)
             existingRecords == data[c.entityType]
             filteredRecords == SelectSeq(existingRecords, LAMBDA r : r.id # c.recordId)
         IN  Step(w,
                  IF ~ok THEN Return(c, Failure("remove", "Failed to retrieve current data"))
                  ELSE [c EXCEPT !.updatedData = [data EXCEPT ![c.entityType] = filteredRecords],
                                 !.pc = "remSetDoc"],
                  crmData, syncLock, lockOwner, ok)

RemGetDoc(w) ==
    /\ ctx[w].pc = "remGetDoc"
    /\ \E ok \in Outcomes :
         LET c == ctx[w]
             data == GetOrDefault(crmData)
             existingRecords == data[c.entityType]
             filteredRecords == SelectSeq(existingRecords, LAMBDA r : r.id # c.recordId)
         IN  Step(w,
                  IF ~ok THEN Return(c, Failure("remove", "Failed to retrieve current data"))
                  ELSE IF Len(filteredRecords) = Len(existingRecords)
                  THEN Return(c, Failure("remove", "Record not found"))
                  ELSE [c EXCEPT !.updatedData = [data EXCEPT ![c.entityType] = filteredRecords],
                                 !.pc = "remSetDoc"],
                  crmData, syncLock, lockOwner, ok)

RemSetDoc(w) ==
    /\ ctx[w].pc = "remSetDoc"
    /\ \E ok \in Outcomes :
         Step(w, IF ok THEN Return(ctx[w], Success("remove", PUndefined))
                       ELSE Return(ctx[w], Failure("remove", StoreError)),
              IF ok THEN <<ctx[w].updatedData>> ELSE crmData,
              syncLock, lockOwner, ok)

\* ------------------------------------------------------ clearAllRecords
\* Mutant of ClearSet: the document is cleared only when no fresh lock is stored.
ClearSetRespectsLock(w) ==
    /\ ctx[w].pc = "clearSet"
    /\ \E ok \in Outcomes :
         LET done == ok /\ ~LockBlocks(syncLock, now)
         IN  Step(w, IF done THEN Return(ctx[w], Success("clear", PUndefined))
                             ELSE Return(ctx[w], Failure("clear", StoreError)),
                  IF done THEN <<DEFAULT_STORAGE_STATE>> ELSE crmData,
                  syncLock, lockOwner, ok)

\* Mutant of ClearSet: the set is not inside a try block.
ClearSetNoCatch(w) ==
    /\ ctx[w].pc = "clearSet"
    /\ \E ok \in Outcomes :
         Step(w, IF ok THEN Return(ctx[w], Success("clear", PUndefined))
                       ELSE Return(ctx[w], Rejected("clear")),
              IF ok THEN <<DEFAULT_STORAGE_STATE>> ELSE crmData,
              syncLock, lockOwner, ok)

ClearSet(w) ==
    /\ ctx[w].pc = "clearSet"
    /\ \E ok \in Outcomes :
         Step(w, IF ok THEN Return(ctx[w], Success("clear", PUndefined))
                       ELSE Return(ctx[w], Failure("clear", StoreError)),
              IF ok THEN <<DEFAULT_STORAGE_STATE>> ELSE crmData,
              syncLock, lockOwner, ok)

\* ---------------------------------------------------------- environment
\* The browser destroys a context (tab closed) in the middle of an operation.
Crash(w) ==
    /\ ctx[w].pc \notin {"idle", "crashed"}
    /\ ctx' = [ctx EXCEPT ![w] = [BlankCtx EXCEPT !.pc = "crashed",
                                                  !.holding = ctx[w].holding,
                                                  !.lockedAt = ctx[w].lockedAt]]
    /\ UNCHANGED <<crmData, syncLock, lockOwner, now, ticks, faultsLeft, calls,
                   hist, mvars, notify, page>>

\* Time passes. Only the value Date.now() returns matters, so the clock is let
\* advance right before a context reads it.
ClockReads == {"acqGetLock", "insGetDoc"}

Tick ==
    /\ ticks < MaxTicks
    /\ \E w \in Writers : ctx[w].pc \in ClockReads
    /\ \E d \in {RETRY_DELAY_MS, lockTimeout} : now + d <= MaxClock /\ now' = now + d
    /\ ticks' = ticks + 1
    /\ UNCHANGED <<crmData, syncLock, lockOwner, faultsLeft, calls, ctx, hist, mvars,
                   notify, page>>

\* ------------------------------------------------ the merge on its own
Collections == {s \in SeqsUpTo(Records, MaxLen) : UniqueIds(s)}
Batches == SeqsUpTo(Records, MaxLen)

MergeInit ==
    /\ ProtocolIdle
    /\ EmptyStore
    /\ faultsLeft = 0
    /\ mExisting \in Collections
    /\ mIncoming \in Batches
    /\ mOther = <<>>
    /\ mMerged = <<>> /\ mAgain = <<>> /\ mSwapped = <<>>
    /\ mPhase = "input"
    /\ NotifyOff /\ PageOff

Merge ==
    /\ mPhase = "input"
    /\ mMerged' = performDeduplication(mExisting, mIncoming)
    /\ mPhase' = "merged"
    /\ UNCHANGED <<mExisting, mIncoming, mOther, mAgain, mSwapped>>
    /\ UNCHANGED pvars

\* The same batch is merged into the result (what a second insert of it computes).
MergeAgain ==
    /\ mPhase = "merged"
    /\ mAgain' = performDeduplication(mMerged, mIncoming)
    /\ mPhase' = "again"
    /\ UNCHANGED <<mExisting, mIncoming, mOther, mMerged, mSwapped>>
    /\ UNCHANGED pvars

MergeNext == Merge \/ MergeAgain

SpecMerge == MergeInit /\ [][MergeNext]_vars

\* Two batches merged into a collection one after the other, in both orders.
Merge2Init ==
    /\ ProtocolIdle
    /\ EmptyStore
    /\ faultsLeft = 0
    /\ mExisting \in Collections
    /\ mOther \in Batches
    /\ mIncoming \in Batches
    /\ mMerged = <<>> /\ mAgain = <<>> /\ mSwapped = <<>>
    /\ mPhase = "input"
    /\ NotifyOff /\ PageOff

MergeInOrder ==
    /\ mPhase = "input"
    /\ mMerged' = performDeduplication(performDeduplication(mExisting, mOther), mIncoming)
    /\ mPhase' = "merged"
    /\ UNCHANGED <<mExisting, mIncoming, mOther, mAgain, mSwapped>>
    /\ UNCHANGED pvars

MergeSwapped ==
    /\ mPhase = "merged"
    /\ mSwapped' = performDeduplication(performDeduplication(mExisting, mIncoming), mOther)
    /\ mPhase' = "swapped"
    /\ UNCHANGED <<mExisting, mIncoming, mOther, mMerged, mAgain>>
    /\ UNCHANGED pvars

Merge2Next == MergeInOrder \/ MergeSwapped

SpecMerge2 == Merge2Init /\ [][Merge2Next]_vars

\* ------------------------------------------------------- specifications
R(id, extractedAt) == [id |-> id, extractedAt |-> extractedAt, name |-> "X"]

\* Batches a harvest hands over: one record, a newer version of it, another id,
\* two new ids, one id twice, and a batch with a null entry.
SeqBatches ==
    {<<R("a", 1)>>, <<R("a", 2)>>, <<R("b", 1)>>,
     <<R("a", 1), R("b", 1)>>, <<R("a", 1), R("a", 2)>>, <<NullRecord>>}

Batches2 == {<<R("a", 1)>>, <<R("a", 2)>>, <<R("b", 1)>>}

\* Documents handed to a direct persistData call.
SeqDocuments ==
    {DEFAULT_STORAGE_STATE,
     [DEFAULT_STORAGE_STATE EXCEPT !.contacts = <<R("a", 1)>>, !.lastSync = 1]}

SeqCall(w) ==
    /\ calls < MaxCalls
    /\ \/ \E entityType \in EntityTypes, newRecords \in SeqBatches :
               CallInsert(w, entityType, newRecords)
       \/ CallAcquire(w)
       \/ CallRelease(w)
       \/ \E entityType \in EntityTypes, recordId \in Ids : CallRemove(w, entityType, recordId)
       \/ CallClear(w)
       \/ CallRetrieve(w)
       \/ \E updatedData \in SeqDocuments : CallPersist(w, updatedData)

Call(w) ==
    /\ calls < MaxCalls
    /\ \/ \E entityType \in EntityTypes, newRecords \in Batches2 :
               CallInsert(w, entityType, newRecords)
       \/ \E entityType \in EntityTypes, recordId \in Ids : CallRemove(w, entityType, recordId)
       \/ CallClear(w)

\* A later context: once another context has been destroyed, it runs one extraction
\* after the other, for ever.
Extract(w) ==
    /\ \E v \in Writers \ {w} : ctx[v].pc = "crashed"
    /\ \E newRecords \in Batches2 : CallInsert(w, "contacts", newRecords)

\* A context that starts one extraction and may be destroyed in the middle of it.
ExtractOnce(w) ==
    /\ ctx[w].result.op = "none"
    /\ \E newRecords \in Batches2 : CallInsert(w, "contacts", newRecords)

InsertRun(w) ==
    \/ AcqGetDoc(w) \/ AcqGetLock(w) \/ AcqSetLock(w) \/ AcqSetDoc(w)
    \/ RelRemove(w) \/ RelGetDoc(w) \/ RelSetDoc(w)
    \/ Delay(w) \/ InsGetDoc(w) \/ InsSetDoc(w)

Run(w) ==
    \/ AcqGetDoc(w) \/ AcqGetLock(w) \/ AcqSetLock(w) \/ AcqSetDoc(w)
    \/ RelRemove(w) \/ RelGetDoc(w) \/ RelSetDoc(w)
    \/ Delay(w) \/ InsGetDoc(w) \/ InsSetDoc(w)
    \/ RemGetDoc(w) \/ RemSetDoc(w) \/ ClearSet(w)

SeqRun(w) == Run(w) \/ RetGet(w) \/ PerSet(w)

MergeOff ==
    /\ mExisting = <<>> /\ mIncoming = <<>> /\ mOther = <<>>
    /\ mMerged = <<>> /\ mAgain = <<>> /\ mSwapped = <<>>
    /\ mPhase = "off"

SeqInit ==
    /\ ProtocolIdle /\ (EmptyStore \/ LeftLocked) /\ faultsLeft = MaxFailures
    /\ MergeOff /\ NotifyOff /\ PageOff
Init == ProtocolIdle /\ EmptyStore /\ faultsLeft = 0 /\ MergeOff /\ NotifyOff /\ PageOff

\* One context calling the public operations one after the other.
SeqNext == SeqCall("w1") \/ SeqRun("w1") \/ Tick
SpecSeq == SeqInit /\ [][SeqNext]_vars

\* One context that only extracts, with batches that may hold a null entry; every
\* started store call settles and every timer fires.
RetryBatches == Batches2 \cup {<<NullRecord>>}
RetryCall(w) ==
    /\ calls < MaxCalls
    /\ \E newRecords \in RetryBatches : CallInsert(w, "contacts", newRecords)
RetryNext == RetryCall("w1") \/ InsertRun("w1") \/ Tick
SpecRetry == SeqInit /\ [][RetryNext]_vars /\ WF_vars(InsertRun("w1"))

\* Several contexts running operations concurrently; a context may be destroyed.
Next == \E w \in Writers : Call(w) \/ Run(w)
Spec == Init /\ [][Next]_vars

\* Context w2 starts one insert and may be destroyed at any point of it; after that
\* context w1 keeps extracting. Every started store call and every timer of w1
\* completes (the clock is fair: a delay of RETRY_DELAY_MS ends).
LiveNext ==
    \/ Extract("w1") \/ InsertRun("w1")
    \/ ExtractOnce("w2") \/ InsertRun("w2") \/ Crash("w2")
    \/ Tick
SpecLive ==
    /\ Init /\ [][LiveNext]_vars
    /\ WF_vars(Extract("w1")) /\ WF_vars(InsertRun("w1"))

\* Two contexts that only extract, while time passes: a context that is slow inside
\* its critical section is overtaken once its lock has aged past the timeout.
StaleBatches == {<<R("a", 1)>>, <<R("b", 1)>>}
StaleCall(w) ==
    /\ calls < MaxCalls
    /\ \E newRecords \in StaleBatches : CallInsert(w, "contacts", newRecords)
StaleNext == (\E w \in Writers : StaleCall(w) \/ InsertRun(w)) \/ Tick
SpecStale == Init /\ [][StaleNext]_vars

\* ------------------------------------------------ the background worker
nvars == <<crmData, syncLock, lockOwner, now, ticks, faultsLeft, calls, ctx, hist, mvars,
           page>>

MissingFields == "Missing entity type or record ID"

\* broadcastStorageUpdate: the STORAGE_UPDATED message reaches a receiver when one
\* is attached; otherwise sendMessage rejects and the catch drops the rejection.
Broadcast(n) ==
    [n EXCEPT !.last = IF n.listener THEN "delivered" ELSE "dropped",
              !.owed = FALSE]

\* sendResponse with the operation's result, then the broadcast when it succeeded.
Answered(n, result) ==
    LET sent == [n EXCEPT !.awaiting = FALSE,
                          !.response = Response(result.success, result.errorMessage)]
    IN  IF result.success THEN Broadcast(sent) ELSE sent

\* A DELETE_RECORD message: the handler calls removeRecord.
HandleDeleteRecord(w) ==
    /\ ~notify.awaiting
    /\ calls < MaxCalls
    /\ \E entityType \in EntityTypes, recordId \in Ids : CallRemove(w, entityType, recordId)

\* A DELETE_RECORD message without entity type or record id is answered at once.
HandleDeleteRecordMissing(w) ==
    /\ ~notify.awaiting /\ Idle(w)
    /\ notify.response # Response(FALSE, MissingFields)
    /\ notify' = [notify EXCEPT !.response = Response(FALSE, MissingFields)]
    /\ UNCHANGED nvars

\* removeRecord has resolved: the rest of handleDeleteRecord.
DeleteRecordResponds(w) ==
    /\ notify.awaiting /\ Idle(w) /\ ctx[w].result.op = "remove"
    /\ notify' = Answered(notify, ctx[w].result)
    /\ UNCHANGED nvars

\* A CLEAR_ALL_DATA message: the handler calls clearAllRecords.
HandleClearAllData(w) ==
    /\ ~notify.awaiting
    /\ calls < MaxCalls
    /\ CallClear(w)

\* clearAllRecords has resolved: the rest of handleClearAllData.
ClearAllDataResponds(w) ==
    /\ notify.awaiting /\ Idle(w) /\ ctx[w].result.op = "clear"
    /\ notify' = Answered(notify, ctx[w].result)
    /\ UNCHANGED nvars

\* A TRIGGER_EXTRACTION message in a page: the harvested batch is inserted.
ExecuteExtraction(w) ==
    /\ ~notify.awaiting
    /\ calls < MaxCalls
    /\ \E newRecords \in Batches2 : CallInsert(w, "contacts", newRecords)

\* The insert has resolved: the page answers, and on success it sends
\* EXTRACTION_COMPLETE, which the background worker may or may not receive.
ExtractionResponds(w) ==
    /\ notify.awaiting /\ Idle(w) /\ ctx[w].result.op = "insert"
    /\ \E heard \in BOOLEAN :
         notify' = [notify EXCEPT
                       !.awaiting = FALSE,
                       !.response = Response(ctx[w].result.success,
                                             ctx[w].result.errorMessage),
                       !.complete = IF ctx[w].result.success /\ heard THEN @ + 1 ELSE @]
    /\ UNCHANGED nvars

\* handleExtractionComplete: the badge is set and the update is broadcast.
HandleExtractionComplete ==
    /\ notify.complete > 0
    /\ notify' = Broadcast([notify EXCEPT !.complete = @ - 1])
    /\ UNCHANGED nvars

\* Mutant of OnChanged: the listener tests another key and never broadcasts.
OnChangedOtherKey ==
    /\ notify.changed > 0
    /\ notify' = [notify EXCEPT !.changed = @ - 1]
    /\ UNCHANGED nvars

\* registerStorageListener: one queued change of the document key is handled.
\* (Changes of other keys do not pass the listener's test and are not queued.)
OnChanged ==
    /\ notify.changed > 0
    /\ notify' = Broadcast([notify EXCEPT !.changed = @ - 1])
    /\ UNCHANGED nvars

\* The popup, the receiver of runtime messages, is opened or closed.
PopupOpens ==
    /\ notify.on /\ ~notify.listener
    /\ notify' = [notify EXCEPT !.listener = TRUE]
    /\ UNCHANGED nvars

PopupCloses ==
    /\ notify.on /\ notify.listener
    /\ notify' = [notify EXCEPT !.listener = FALSE]
    /\ UNCHANGED nvars

NotifyInit ==
    /\ ProtocolIdle /\ EmptyStore /\ faultsLeft = MaxFailures /\ MergeOff
    /\ notify = NotifyIdle(TRUE)
    /\ PageOff

\* Message handlers calling the operations one at a time, the storage listener and
\* the popup. Every store call settles, every timer fires, every queued event and
\* message is handled, and every handler runs to its end.
NotifyNext ==
    \/ HandleDeleteRecord("w1") \/ HandleDeleteRecordMissing("w1")
    \/ DeleteRecordResponds("w1")
    \/ HandleClearAllData("w1") \/ ClearAllDataResponds("w1")
    \/ ExecuteExtraction("w1") \/ ExtractionResponds("w1")
    \/ HandleExtractionComplete \/ OnChanged
    \/ PopupOpens \/ PopupCloses
    \/ Run("w1")
SpecNotify ==
    /\ NotifyInit /\ [][NotifyNext]_vars
    /\ WF_vars(Run("w1"))
    /\ WF_vars(DeleteRecordResponds("w1")) /\ WF_vars(ClearAllDataResponds("w1"))
    /\ WF_vars(ExtractionResponds("w1"))
    /\ WF_vars(HandleExtractionComplete) /\ WF_vars(OnChanged)

\* ------------------------------------------------ the extraction agent
MaxTriggers == 3    \* TRIGGER_EXTRACTION messages a page receives in a run

gvars == <<crmData, syncLock, lockOwner, now, ticks, faultsLeft, calls, ctx, hist, mvars,
           notify>>

AlreadyExtracting == "Extraction already in progress"
UnknownView == "Unable to detect ActiveCampaign view type"
NothingFound == "No records found on this page"

Views == {"unknown"} \cup EntityTypes

\* The invocation of executeExtraction that a trigger starts.
Invocation == IF page.pc["w1"] = "idle" /\ Idle("w1") THEN "w1" ELSE "w2"

\* An invocation of executeExtraction starts and awaits the harvest.
Started(w, view) ==
    [page EXCEPT !.triggers = @ + 1, !.isExtracting = TRUE,
                 !.pc[w] = "harvesting", !.entityType[w] = view]

\* An invocation of executeExtraction answers at once.
Refused(message) ==
    [page EXCEPT !.triggers = @ + 1, !.response = Response(FALSE, message)]

\* Mutant of TriggerExtraction: isExtracting is not tested.
TriggerExtractionUnguarded ==
    /\ page.on /\ page.triggers < MaxTriggers
    /\ \E view \in Views :
         IF view = "unknown"
         THEN page' = [Refused(UnknownView) EXCEPT !.isExtracting = FALSE]
         ELSE /\ page.pc[Invocation] = "idle" /\ Idle(Invocation)
              /\ page' = Started(Invocation, view)
    /\ UNCHANGED gvars

\* executeExtraction up to its first await: a trigger that finds isExtracting set is
\* refused; otherwise the flag is set, and an unknown view resets it and answers.
TriggerExtraction ==
    /\ page.on /\ page.triggers < MaxTriggers
    /\ IF page.isExtracting
       THEN page' = Refused(AlreadyExtracting)
       ELSE \E view \in Views :
              IF view = "unknown"
              THEN page' = [Refused(UnknownView) EXCEPT !.isExtracting = FALSE]
              ELSE /\ page.pc[Invocation] = "idle" /\ Idle(Invocation)
                   /\ page' = Started(Invocation, view)
    /\ UNCHANGED gvars

\* The invocation's extraction is over: catch or the end of try, then finally.
Ended(w, success, errorMessage) ==
    [page EXCEPT !.pc[w] = "idle", !.isExtracting = FALSE,
                 !.response = Response(success, errorMessage)]

\* The harvest found no record: extractContacts throws, executeExtraction catches.
HarvestEmpty(w) ==
    /\ page.pc[w] = "harvesting"
    /\ page' = Ended(w, FALSE, NothingFound)
    /\ UNCHANGED gvars

\* The harvest found records: they are handed to insertRecordsWithDeduplication.
HarvestSaves(w) ==
    /\ page.pc[w] = "harvesting"
    /\ calls < MaxCalls
    /\ \E newRecords \in Batches2 : CallInsert(w, page.entityType[w], newRecords)

\* The insert has resolved: success is answered, a failure is thrown and caught.
ExtractionEnds(w) ==
    /\ page.pc[w] = "saving" /\ Idle(w)
    /\ page' = Ended(w, ctx[w].result.success, ctx[w].result.errorMessage)
    /\ UNCHANGED gvars

PageInit ==
    /\ ProtocolIdle /\ EmptyStore /\ faultsLeft = MaxFailures /\ MergeOff /\ NotifyOff
    /\ page = PageIdle(TRUE)

\* One page receiving triggers while its extractions run.
PageNext ==
    \/ TriggerExtraction
    \/ \E w \in Writers :
          HarvestEmpty(w) \/ HarvestSaves(w) \/ ExtractionEnds(w) \/ InsertRun(w)
SpecPage == PageInit /\ [][PageNext]_vars

\* ================================================================ properties
Document == GetOrDefault(crmData)

\* C1 (uniqueness): starting from collections with unique ids, after any sequence
\* of insert calls, batches that repeat an id included, no two records of a
\* collection of the persisted document share an id.
C1_UniqueIds == \A entityType \in EntityTypes : UniqueIds(Document[entityType])

\* C1 witness: a batch that holds id "a" twice has been written over a stored "a",
\* and the collection holds "a" once.
C1_Witness ==
    /\ ctx["w1"].pc = "relRemove" /\ ctx["w1"].relFrom = "afterPersist"
    /\ ctx["w1"].persistOk
    /\ ctx["w1"].newRecords = <<R("a", 1), R("a", 2)>>
    /\ ctx["w1"].currentData.contacts = <<R("a", 1)>>
    /\ Document.contacts = <<R("a", 2)>>

OccursOnce(records, id) == Cardinality({i \in DOMAIN records : records[i].id = id}) = 1

\* C2 (recency wins): for an existing record (extractedAt t1) and the one incoming
\* record with its id (extractedAt t2), the merged collection holds the incoming
\* record when t2 > t1 and the existing record when t2 <= t1, a tie included.
C2_RecencyWins ==
    mPhase = "merged" =>
        \A i \in DOMAIN mExisting, j \in DOMAIN mIncoming :
            (mExisting[i].id = mIncoming[j].id /\ OccursOnce(mIncoming, mIncoming[j].id)) =>
                /\ OccursOnce(mMerged, mIncoming[j].id)
                /\ mIncoming[j].extractedAt > mExisting[i].extractedAt
                      => MapGet(mMerged, mIncoming[j].id) = mIncoming[j]
                /\ mIncoming[j].extractedAt <= mExisting[i].extractedAt
                      => MapGet(mMerged, mIncoming[j].id) = mExisting[i]

\* C2 witness: one merge with a tie (same extractedAt, other content: the existing
\* record stays) and a strictly newer incoming record (it replaces).
C2_Witness ==
    /\ mPhase = "merged"
    /\ mExisting = <<[id |-> "a", extractedAt |-> 1, name |-> "X"],
                     [id |-> "b", extractedAt |-> 1, name |-> "X"]>>
    /\ mIncoming = <<[id |-> "a", extractedAt |-> 1, name |-> "Y"],
                     [id |-> "b", extractedAt |-> 2, name |-> "Y"]>>
    /\ mMerged = <<[id |-> "a", extractedAt |-> 1, name |-> "X"],
                   [id |-> "b", extractedAt |-> 2, name |-> "Y"]>>

\* An insert of context w resolves in this step.
InsertResolves(w) == ctx[w].op = "insert" /\ ctx'[w].pc = "idle"

\* C3 (insertion count): an insert whose document write succeeded returns success
\* with a count that is never negative, is n for a batch of n records with distinct
\* new ids put into an empty collection, and is 0 when every id of the batch was
\* already in the collection, whatever the extractedAt values.
C3_InsertionCount ==
    [][\A w \in Writers :
        (InsertResolves(w) /\ ctx[w].relFrom = "afterPersist" /\ ctx[w].persistOk) =>
            LET existingRecords == ctx[w].currentData[ctx[w].entityType]
                newRecords == ctx[w].newRecords
                returned == ctx'[w].result
            IN  /\ returned.success
                /\ returned.payload.kind = "number"
                /\ returned.payload.value >= 0
                /\ (existingRecords = <<>> /\ UniqueIds(newRecords))
                      => returned.payload.value = Len(newRecords)
                /\ IdsOf(newRecords) \subseteq IdsOf(existingRecords)
                      => returned.payload.value = 0
      ]_vars

\* C3 witness: a newer version of a stored id has replaced it and the insert
\* returned the count 0.
C3_Witness ==
    /\ ctx["w1"].result = Success("insert", PNumber(0))
    /\ Document.contacts = <<R("a", 2)>>
    /\ hist.reported = {<<"contacts", "a">>}
    /\ calls = 2 /\ ~hist.erased
\* The stored lock has reached the age at which acquireSyncLock disregards it.
LockStale == syncLock = 0 \/ now - syncLock >= lockTimeout

\* C4 (mutual exclusion): while the lock is not stale, no two contexts are between
\* a successful acquireSyncLock and their releaseSyncLock.
C4_MutualExclusion ==
    \A w1, w2 \in Writers :
        (w1 # w2 /\ ctx[w1].holding /\ ctx[w2].holding) => LockStale

\* C5 (no lost insert): once every operation has returned, and no removeRecord or
\* clearAllRecords has written, the stored collections hold every id of every batch
\* whose insert returned success.
C5_NoLostInsert ==
    ((\A w \in Writers : ctx[w].pc = "idle") /\ ~hist.erased) =>
        \A p \in hist.reported : p[2] \in IdsOf(Document[p[1]])

\* Context w, running a direct acquireSyncLock call, takes a step.
AcquireStep(w) == ctx[w].op = "acquire" /\ ctx'[w] # ctx[w]

\* C6 (second acquire): a context whose acquireSyncLock returned true and that has
\* not released calls acquireSyncLock again; when this call tests the lock less
\* than 30000 ms after the stored timestamp, it returns false.
C6_SecondAcquireFails ==
    [][\A w \in Writers :
        (AcquireStep(w) /\ ctx[w].pc = "acqGetLock" /\ ctx[w].holding
            /\ syncLock # 0 /\ now - syncLock < lockTimeout) =>
                (ctx'[w].pc = "idle" /\ ~ctx'[w].result.success)
      ]_vars

\* C6 witness: the second call has returned false, with no store failure, some
\* time after the first call wrote the lock.
C6_Witness ==
    /\ ctx["w1"].pc = "idle" /\ ctx["w1"].holding
    /\ ctx["w1"].prevOp = "acquire"
    /\ ctx["w1"].result.op = "acquire" /\ ~ctx["w1"].result.success
    /\ lockOwner = "w1" /\ now > syncLock
    /\ faultsLeft = MaxFailures

\* C7 as stated (stale lock, document readable): a direct acquireSyncLock call that
\* has read the document and finds a lock older than the timeout returns true.
C7_StaleLockAcquired ==
    [][\A w \in Writers :
        (AcquireStep(w) /\ ctx[w].pc \in {"acqGetLock", "acqSetLock"}
            /\ syncLock # 0 /\ now - syncLock > lockTimeout /\ ctx'[w].pc = "idle") =>
                ctx'[w].result.success
      ]_vars

\* C7 amended: a direct acquireSyncLock call that has read the document and finds a
\* lock older than the timeout returns true, whatever syncInProgress is, when its
\* read and its write of the lock key do not fail: it passes the test, writes the
\* lock key, and returns true whether or not the write of the flag succeeds.
C7_StaleLockAcquiredIfLockKeyWorks ==
    [][\A w \in Writers :
        /\ (AcquireStep(w) /\ ctx[w].pc = "acqGetLock" /\ faultsLeft' = faultsLeft
                /\ syncLock # 0 /\ now - syncLock > lockTimeout)
              => ctx'[w].pc = "acqSetLock"
        /\ (AcquireStep(w) /\ ctx[w].pc = "acqSetLock" /\ faultsLeft' = faultsLeft)
              => (ctx'[w].pc = "acqSetDoc" /\ syncLock' = ctx[w].currentTime)
        /\ (AcquireStep(w) /\ ctx[w].pc = "acqSetDoc")
              => (ctx'[w].pc = "idle" /\ ctx'[w].result.success)
      ]_vars

\* C7 witness: acquireSyncLock has passed the test on a lock older than the timeout
\* while the stored syncInProgress is true.
C7_Witness ==
    /\ ctx["w1"].op = "acquire" /\ ctx["w1"].pc = "acqSetLock"
    /\ syncLock # 0 /\ ctx["w1"].currentTime - syncLock > lockTimeout
    /\ Document.syncInProgress

\* C9 (sequential cycles, working store): while no store call has failed, a direct
\* acquireSyncLock returns false only when a lock written by an earlier acquire is
\* stored and younger than the timeout, and the acquireSyncLock that follows a
\* releaseSyncLock returns true.
C9_SequentialCycles ==
    [][\A w \in Writers :
        (AcquireStep(w) /\ ctx'[w].pc = "idle" /\ faultsLeft' = MaxFailures) =>
            /\ ~ctx'[w].result.success =>
                  (syncLock # 0 /\ lockOwner # "none" /\ now - syncLock < lockTimeout)
            /\ ctx[w].prevOp = "release" => ctx'[w].result.success
      ]_vars

\* C9 witness: a lock left in the store was released, and the acquireSyncLock after
\* that release returned true.
C9_Witness ==
    /\ ctx["w1"].pc = "idle" /\ ctx["w1"].prevOp = "release"
    /\ ctx["w1"].result.op = "acquire" /\ ctx["w1"].result.success
    /\ lockOwner = "w1" /\ Document.syncInProgress
    /\ faultsLeft = MaxFailures

\* C10 as stated (lock never left held): when an insert that acquired the lock
\* returns, the lock key it wrote is no longer in the store.
C10_LockGoneAfterInsert ==
    [][\A w \in Writers : (InsertResolves(w) /\ ctx[w].hadLock) => lockOwner' # w]_vars

\* C10 amended: when an insert that acquired the lock returns, releaseSyncLock has
\* run, and the lock key the insert wrote is still in the store only if the
\* store rejected the removal of the lock key during this insert.
C10_LockGoneUnlessRemoveFailed ==
    [][\A w \in Writers :
        (InsertResolves(w) /\ ctx[w].hadLock) =>
            /\ ~ctx'[w].holding
            /\ lockOwner' = w => w \in hist'.removeFailed
      ]_vars

\* C10 witness: an insert whose merge threw at every attempt has returned the
\* failure, and the lock key is gone.
C10_Witness ==
    /\ ctx["w1"].pc = "idle"
    /\ ctx["w1"].result = Failure("insert", TypeErrorMessage)
    /\ syncLock = 0 /\ lockOwner = "none" /\ ~ctx["w1"].holding
\* Context w2 was destroyed and the lock key it wrote is still in the store.
LeftHeld == ctx["w2"].pc = "crashed" /\ lockOwner = "w2"

\* An insert of the later context w1 has returned success and the lock key of the
\* destroyed context is gone.
GotThrough ==
    /\ ctx["w1"].pc = "idle"
    /\ ctx["w1"].result.op = "insert" /\ ctx["w1"].result.success
    /\ lockOwner # "w2"

\* C8 (crashed holder): a context destroyed while it holds the lock does not block
\* the others for ever: a later context that keeps extracting gets an insert
\* through, once the lock timestamp has reached the timeout.
C8_CrashedHolderDoesNotBlock == LeftHeld ~> GotThrough

\* C8 witness: w2 was destroyed inside its critical section, and more than the
\* timeout later an insert of w1 has returned success.
C8_Witness ==
    /\ ctx["w2"].pc = "crashed" /\ ctx["w2"].holding
    /\ GotThrough
    /\ now >= 1 + lockTimeout

\* C11 (bounded retry): an insert calls acquireSyncLock at most RETRY_ATTEMPTS times;
\* after a failed attempt it waits RETRY_DELAY_MS before the loop goes on; an insert
\* none of whose acquisitions succeeded returns the lock-acquisition failure; and
\* every insert returns.
C11_BoundedRetry ==
    /\ [](\A w \in Writers : ctx[w].acquireCalls <= RETRY_ATTEMPTS)
    /\ [][\A w \in Writers :
            /\ (ctx[w].pc # "delay" /\ ctx'[w].pc = "delay")
                  => (ctx'[w].wakeAt = now + RETRY_DELAY_MS
                        /\ ctx'[w].attemptCount = ctx[w].attemptCount + 1)
            /\ (ctx[w].pc = "delay" /\ ctx'[w].pc # "delay")
                  => now' >= ctx[w].wakeAt
            /\ (InsertResolves(w) /\ ~ctx[w].hadLock)
                  => (ctx[w].acquireCalls = RETRY_ATTEMPTS
                        /\ ctx'[w].result = Failure("insert", LockFailureMessage))
         ]_vars
    /\ \A w \in Writers : (ctx[w].op = "insert") ~> (ctx[w].pc = "idle")

\* C11 witness: with a working store, the three attempts of an insert found the lock
\* a destroyed context left, and the insert returned the lock-acquisition failure
\* three delays after it started.
C11_Witness ==
    /\ ctx["w1"].pc = "idle"
    /\ ctx["w1"].result = Failure("insert", LockFailureMessage)
    /\ lockOwner = "gone" /\ syncLock = 1
    /\ now = 1 + RETRY_ATTEMPTS * RETRY_DELAY_MS
    /\ faultsLeft = MaxFailures /\ calls = 1


\* The store calls of w's running operation rejected so far, this step included.
FailedCalls(w) ==
    hist.failedAt[w] \cup
        (IF ctx'[w] # ctx[w] /\ faultsLeft' < faultsLeft THEN {ctx[w].pc} ELSE {})

\* After a rejected store call the insert starts no attempt and returns a failure.
GivesUp(w) ==
    /\ ~(ctx[w].pc = "delay" /\ ctx'[w].pc = "acqGetDoc")
    /\ ctx'[w].pc = "idle" => ~ctx'[w].result.success

\* C12 as stated (store failure not retried): once any store call of an insert has
\* been rejected, the insert makes no further attempt and returns a failure result.
C12_StoreFailureNotRetried ==
    [][\A w \in Writers :
        (ctx[w].op = "insert" /\ FailedCalls(w) # {}) => GivesUp(w)]_vars

\* C12 amended: once the insert's own read or write of the document has been
\* rejected, the insert makes no further attempt and returns a failure result; a
\* rejected read of the document, or read or write of the lock key, inside
\* acquireSyncLock ends the attempt as a failed acquisition (counted, followed by the
\* delay and, within the budget, by another attempt).
C12_DocumentFailureNotRetried ==
    [][\A w \in Writers :
        ctx[w].op = "insert" =>
            /\ FailedCalls(w) \cap {"insGetDoc", "insSetDoc"} # {} => GivesUp(w)
            /\ (ctx'[w] # ctx[w] /\ faultsLeft' < faultsLeft
                    /\ ctx[w].pc \in {"acqGetDoc", "acqGetLock", "acqSetLock"})
                  => (ctx'[w].pc = "delay"
                        /\ ctx'[w].attemptCount = ctx[w].attemptCount + 1)
      ]_vars

\* C12 witness: the document read of an insert that held the lock was rejected, and
\* the insert has released the lock and returned the read failure.
C12_Witness ==
    /\ ctx["w1"].pc = "idle"
    /\ ctx["w1"].result =
          Failure("insert", "Failed to retrieve current data for deduplication")
    /\ faultsLeft = MaxFailures - 1
    /\ syncLock = 0 /\ ~ctx["w1"].holding


\* What the caller of operation op may get: a result with its success flag, payload
\* and message (true or false for acquireSyncLock, nothing for releaseSyncLock).
ResultValue(op, res) ==
    /\ res.op = op
    /\ res.errorMessage # Uncaught
    /\ CASE op = "acquire" -> res.payload = PNull /\ res.errorMessage = NoMessage
         [] op = "release" -> res = Success("release", PUndefined)
         [] OTHER ->
              IF res.success
              THEN /\ res.errorMessage = NoMessage
                   /\ res.payload.kind =
                         CASE op = "insert" -> "number"
                           [] op = "retrieve" -> "document"
                           [] OTHER -> "undefined"
              ELSE res.payload = PNull /\ res.errorMessage # NoMessage

\* C13 (no exception escapes): every public operation that returns, rejected store
\* calls and a throwing merge included, returns a result value of its type; a
\* rejected store call never ends the operation with an exception.
C13_NoExceptionEscapes ==
    [][\A w \in Writers :
        /\ (ctx[w].pc # "idle" /\ ctx'[w].pc = "idle")
              => ResultValue(ctx[w].op, ctx'[w].result)
        /\ (ctx'[w] # ctx[w] /\ faultsLeft' < faultsLeft)
              => (ctx'[w].pc # "crashed" /\ ctx'[w].result.errorMessage # Uncaught
                    /\ (ctx'[w].pc # "idle" => ctx'[w].op = ctx[w].op))
      ]_vars

\* C13 witness: the store rejected the set of clearAllRecords, and the operation
\* returned the failure result.
C13_Witness ==
    /\ ctx["w1"].pc = "idle"
    /\ ctx["w1"].result = Failure("clear", StoreError)
    /\ faultsLeft = MaxFailures - 1


\* C14 (remove of a missing id): a removeRecord that reads a collection holding no
\* record with the id returns the failure "Record not found" in the same step, and
\* writes nothing: the stored document (absent or present) and the lock key are as
\* they were when the operation was called.
C14_RemoveMissingId ==
    [][\A w \in Writers :
        (ctx[w].pc = "remGetDoc" /\ ctx'[w] # ctx[w] /\ faultsLeft' = faultsLeft
            /\ ctx[w].recordId \notin IdsOf(Document[ctx[w].entityType])) =>
                /\ ctx'[w].pc = "idle"
                /\ ctx'[w].result = Failure("remove", "Record not found")
                /\ crmData' = crmData /\ syncLock' = syncLock
      ]_vars

\* C14 witness: removeRecord("contacts", "b") on a stored collection that holds only
\* "a" has returned not found, and the collection still holds "a".
C14_Witness ==
    /\ ctx["w1"].pc = "idle"
    /\ ctx["w1"].result = Failure("remove", "Record not found")
    /\ Document.contacts = <<R("a", 1)>>
    /\ crmData # <<>> /\ faultsLeft = MaxFailures


\* C15 (idempotence): merging a batch into the result of merging it gives that result
\* again, records and order included, and the count an insert reports for this
\* second merge is 0.
C15_MergeIdempotent ==
    mPhase = "again" =>
        /\ mAgain = mMerged
        /\ InsertedCount(mAgain, mMerged) = 0

\* C15 witness: a batch that adds an id, replaces a stored record and repeats an id
\* was merged, and then merged again.
C15_Witness ==
    /\ mPhase = "again"
    /\ mExisting = <<[id |-> "a", extractedAt |-> 1, name |-> "X"]>>
    /\ mIncoming = <<[id |-> "b", extractedAt |-> 1, name |-> "X"],
                     [id |-> "a", extractedAt |-> 2, name |-> "Y"]>>
    /\ mMerged = <<[id |-> "a", extractedAt |-> 2, name |-> "Y"],
                   [id |-> "b", extractedAt |-> 1, name |-> "X"]>>
    /\ mAgain = mMerged


RecordsOf(records) == {records[i] : i \in DOMAIN records}

\* Some id has, among the existing records and the two batches, two versions with
\* the same extractedAt and different contents.
TiedVersions(id) ==
    \E r1, r2 \in RecordsOf(mExisting) \cup RecordsOf(mOther) \cup RecordsOf(mIncoming) :
        r1.id = id /\ r2.id = id /\ r1.extractedAt = r2.extractedAt /\ r1 # r2

\* C16 as stated (commutativity): two batches merged into a collection in either
\* order give the same set of records.
C16_MergeCommutes ==
    mPhase = "swapped" => RecordsOf(mMerged) = RecordsOf(mSwapped)

\* C16 amended: two batches merged into a collection in either order give the same
\* ids and for every id the same extractedAt, the greatest one seen; the record of
\* an id is the same in both unless two versions of that id have the same
\* extractedAt and different contents.
C16_MergeCommutesUpToTies ==
    mPhase = "swapped" =>
        /\ IdsOf(mMerged) = IdsOf(mSwapped)
        /\ \A id \in IdsOf(mMerged) :
              /\ MapGet(mMerged, id).extractedAt = MapGet(mSwapped, id).extractedAt
              /\ \A r \in RecordsOf(mExisting) \cup RecordsOf(mOther) \cup RecordsOf(mIncoming) :
                    r.id = id => r.extractedAt <= MapGet(mMerged, id).extractedAt
              /\ MapGet(mMerged, id) # MapGet(mSwapped, id) => TiedVersions(id)

\* C16 witness: the two batches carry different versions of a stored id and a new
\* id; both orders give the newest version and the new id, in different positions.
C16_Witness ==
    /\ mPhase = "swapped"
    /\ mExisting = <<[id |-> "a", extractedAt |-> 1, name |-> "X"]>>
    /\ mOther = <<[id |-> "a", extractedAt |-> 2, name |-> "Y"]>>
    /\ mIncoming = <<[id |-> "b", extractedAt |-> 1, name |-> "X"],
                     [id |-> "a", extractedAt |-> 1, name |-> "Y"]>>
    /\ RecordsOf(mMerged) = {[id |-> "a", extractedAt |-> 2, name |-> "Y"],
                             [id |-> "b", extractedAt |-> 1, name |-> "X"]}
    /\ RecordsOf(mSwapped) = RecordsOf(mMerged)


\* Context w reads the document key, nothing is stored under it, and the store
\* answers.
ReadsMissing(w, pc) ==
    /\ ctx[w].pc = pc /\ ctx'[w] # ctx[w]
    /\ crmData = <<>> /\ faultsLeft' = faultsLeft

\* C17 (get-or-default): with no document stored, retrieveAllData returns success
\* with the default document (empty collections, lastSync 0, syncInProgress false),
\* and the reads of acquireSyncLock, insertRecordsWithDeduplication and removeRecord
\* go on with that document instead of failing with a read error.
C17_GetOrDefault ==
    [][\A w \in Writers :
        /\ ReadsMissing(w, "retGet") =>
              /\ ctx'[w].result = Success("retrieve", PDocument(DEFAULT_STORAGE_STATE))
              /\ DEFAULT_STORAGE_STATE.contacts = <<>> /\ DEFAULT_STORAGE_STATE.deals = <<>>
              /\ DEFAULT_STORAGE_STATE.tasks = <<>> /\ DEFAULT_STORAGE_STATE.lastSync = 0
              /\ ~DEFAULT_STORAGE_STATE.syncInProgress
        /\ ReadsMissing(w, "acqGetDoc") =>
              (ctx'[w].pc = "acqGetLock" /\ ctx'[w].acqData = DEFAULT_STORAGE_STATE)
        /\ ReadsMissing(w, "insGetDoc") =>
              /\ ctx'[w].currentData = DEFAULT_STORAGE_STATE
              /\ ctx'[w].relFrom # "readFail"
              /\ ~Throws(ctx[w].newRecords) => ctx'[w].pc = "insSetDoc"
        /\ ReadsMissing(w, "remGetDoc") =>
              ctx'[w].result = Failure("remove", "Record not found")
      ]_vars

\* C17 witness: retrieveAllData on a store without a document has returned the
\* default document, and nothing was written.
C17_Witness ==
    /\ ctx["w1"].pc = "idle"
    /\ ctx["w1"].result = Success("retrieve", PDocument(DEFAULT_STORAGE_STATE))
    /\ crmData = <<>>


\* Context w, running a direct releaseSyncLock call, takes a step.
ReleaseStep(w) == ctx[w].op = "release" /\ ctx'[w] # ctx[w]

SameRecords(d1, d2) ==
    /\ \A entityType \in EntityTypes : d1[entityType] = d2[entityType]
    /\ d1.lastSync = d2.lastSync

\* C18 (release is idempotent and never fails): a releaseSyncLock call always
\* returns normally, rejected store calls included, and never changes the
\* collections or lastSync; when none of its store calls is rejected it leaves the
\* lock key absent and syncInProgress false, also when no lock was stored; and a
\* call that follows a release in a run without rejected calls changes nothing.
C18_ReleaseIdempotent ==
    [][\A w \in Writers :
        ReleaseStep(w) =>
            /\ SameRecords(Document', Document)
            /\ ctx'[w].pc = "idle" => ctx'[w].result = Success("release", PUndefined)
            /\ (ctx'[w].pc = "idle" /\ FailedCalls(w) = {})
                  => (syncLock' = 0 /\ ~Document'.syncInProgress)
            /\ (ctx[w].prevOp = "release" /\ faultsLeft' = MaxFailures)
                  => (syncLock = 0 /\ syncLock' = 0 /\ Document' = Document)
      ]_vars

\* C18 witness: releaseSyncLock was called twice in a row with a working store, the
\* second time with no lock stored; both calls returned, and the lock key is absent
\* and syncInProgress false.
C18_Witness ==
    /\ ctx["w1"].pc = "idle" /\ ctx["w1"].prevOp = "release"
    /\ ctx["w1"].result = Success("release", PUndefined)
    /\ calls = 2 /\ faultsLeft = MaxFailures
    /\ syncLock = 0 /\ lockOwner = "none"
    /\ crmData = <<DEFAULT_STORAGE_STATE>>


\* C19 (contention path writes nothing): an acquireSyncLock that finds a lock
\* timestamp younger than the timeout returns false, and neither its read of the
\* document nor its test of the lock changes the store: the timestamp keeps its
\* value and the document, syncInProgress included, is as it was.
C19_ContentionWritesNothing ==
    [][\A w \in Writers :
        /\ (ctx'[w] # ctx[w] /\ ctx[w].pc \in {"acqGetDoc", "acqGetLock"})
              => (crmData' = crmData /\ syncLock' = syncLock /\ lockOwner' = lockOwner)
        /\ (AcquireStep(w) /\ ctx[w].pc = "acqGetLock"
                /\ syncLock # 0 /\ now - syncLock < lockTimeout)
              => (ctx'[w].pc = "idle" /\ ~ctx'[w].result.success)
      ]_vars

\* C19 witness: with a working store, an acquireSyncLock has returned false one
\* second after a destroyed context wrote the lock; the timestamp and the document
\* that context left are still stored.
C19_Witness ==
    /\ ctx["w1"].pc = "idle"
    /\ ctx["w1"].result.op = "acquire" /\ ~ctx["w1"].result.success
    /\ calls = 1 /\ faultsLeft = MaxFailures
    /\ lockOwner = "gone" /\ syncLock = 1 /\ now = 1 + RETRY_DELAY_MS
    /\ crmData = <<[DEFAULT_STORAGE_STATE EXCEPT !.syncInProgress = TRUE]>>


\* A direct acquireSyncLock of context w tests the lock key and the store answers.
TestsLock(w) ==
    AcquireStep(w) /\ ctx[w].pc = "acqGetLock" /\ faultsLeft' = faultsLeft

\* C20 as stated (expiry boundary): a stored lock blocks acquireSyncLock up to and
\* including the age of 30000 ms; the test is passed only with no lock stored or
\* with an age strictly greater than 30000 ms.
C20_BlocksUpToTimeout ==
    [][\A w \in Writers :
        TestsLock(w) =>
            /\ (syncLock # 0 /\ now - syncLock <= lockTimeout)
                  => (ctx'[w].pc = "idle" /\ ~ctx'[w].result.success)
            /\ ctx'[w].pc = "acqSetLock"
                  => (syncLock = 0 \/ now - syncLock > lockTimeout)
      ]_vars

\* C20 amended: a stored lock blocks acquireSyncLock while its age is strictly less
\* than 30000 ms; the test is passed with no lock stored or with an age of 30000 ms
\* or more, the age of exactly 30000 ms included.
C20_BlocksBelowTimeout ==
    [][\A w \in Writers :
        TestsLock(w) =>
            /\ (syncLock # 0 /\ now - syncLock < lockTimeout)
                  => (ctx'[w].pc = "idle" /\ ~ctx'[w].result.success)
            /\ (syncLock = 0 \/ now - syncLock >= lockTimeout)
                  => (ctx'[w].pc = "acqSetLock" /\ ctx'[w].currentTime = now)
      ]_vars

\* C20 witness: acquireSyncLock has passed the test on a stored lock whose age is
\* exactly the timeout.
C20_Witness ==
    /\ ctx["w1"].op = "acquire" /\ ctx["w1"].pc = "acqSetLock"
    /\ syncLock # 0 /\ ctx["w1"].currentTime - syncLock = lockTimeout


\* A store call of the acquireSyncLock part of w's operation is rejected in this step.
AcquireCallRejected(w) ==
    /\ ctx'[w] # ctx[w] /\ faultsLeft' < faultsLeft
    /\ ctx[w].pc \in {"acqGetDoc", "acqGetLock", "acqSetLock"}

\* C21 (acquire fails closed): when the read of the document, or the read or the
\* write of the lock key, is rejected, acquireSyncLock returns false; that step and
\* the reads before it leave the lock key and the stored document as they were.
C21_AcquireFailsClosed ==
    [][\A w \in Writers :
        /\ AcquireCallRejected(w) =>
              /\ crmData' = crmData /\ syncLock' = syncLock /\ lockOwner' = lockOwner
              /\ ctx'[w].holding = ctx[w].holding
              /\ ctx[w].op = "acquire" => (ctx'[w].pc = "idle" /\ ~ctx'[w].result.success)
              /\ ctx[w].op = "insert" => (ctx'[w].pc = "delay" /\ ctx'[w].hadLock = ctx[w].hadLock)
        /\ (ctx'[w] # ctx[w] /\ ctx[w].pc = "acqSetLock")
              => (ctx[w].acqData = Document /\ crmData' = crmData)
      ]_vars

\* C21 witness: a store call of acquireSyncLock was rejected while the lock a destroyed
\* context left had expired; the call returned false and that lock and the document
\* are still as they were.
C21_Witness ==
    /\ ctx["w1"].pc = "idle"
    /\ ctx["w1"].result.op = "acquire" /\ ~ctx["w1"].result.success
    /\ calls = 1 /\ faultsLeft = MaxFailures - 1
    /\ lockOwner = "gone" /\ syncLock = 1 /\ now - syncLock >= lockTimeout
    /\ crmData = <<[DEFAULT_STORAGE_STATE EXCEPT !.syncInProgress = TRUE]>>


\* The ids of the incoming records that are not in seen, each once, in the order of
\* their first occurrence.
RECURSIVE NewIdsInOrder(_, _)
NewIdsInOrder(seen, incoming) ==
    IF incoming = <<>> THEN <<>>
    ELSE IF Head(incoming).id \in seen THEN NewIdsInOrder(seen, Tail(incoming))
    ELSE <<Head(incoming).id>> \o
            NewIdsInOrder(seen \cup {Head(incoming).id}, Tail(incoming))

\* C22 (merge output order): the merged collection has the ids of the existing
\* records first, at their original positions (a replaced record stays where the
\* record it replaces was), followed by the ids that are new, in incoming order.
C22_MergeOrder ==
    mPhase \in {"merged", "again"} =>
        LET newIds == NewIdsInOrder(IdsOf(mExisting), mIncoming)
        IN  /\ Len(mMerged) = Len(mExisting) + Len(newIds)
            /\ \A i \in DOMAIN mExisting : mMerged[i].id = mExisting[i].id
            /\ \A k \in DOMAIN newIds : mMerged[Len(mExisting) + k].id = newIds[k]

\* C22 witness: the batch replaces the first of two stored records; the newer
\* version is at the first position and the untouched record after it.
C22_Witness ==
    /\ mPhase = "merged"
    /\ mExisting = <<[id |-> "a", extractedAt |-> 1, name |-> "X"],
                     [id |-> "b", extractedAt |-> 1, name |-> "X"]>>
    /\ mIncoming = <<[id |-> "a", extractedAt |-> 2, name |-> "Y"]>>
    /\ mMerged = <<[id |-> "a", extractedAt |-> 2, name |-> "Y"],
                   [id |-> "b", extractedAt |-> 1, name |-> "X"]>>


\* C23 (untouched records stay): the collection an insert writes holds, with
\* identical content, every record of the collection it read whose id is not in the
\* batch, and every id of the collection it read; the other collections are
\* written as they were read.
C23_UntouchedRecordsStay ==
    [][\A w \in Writers :
        (ctx[w].pc = "insSetDoc" /\ ctx'[w] # ctx[w] /\ faultsLeft' = faultsLeft) =>
            LET existingRecords == ctx[w].currentData[ctx[w].entityType]
                written == Document'[ctx[w].entityType]
            IN  /\ \A i \in DOMAIN existingRecords :
                      existingRecords[i].id \notin IdsOf(ctx[w].newRecords)
                          => existingRecords[i] \in RecordsOf(written)
                /\ IdsOf(existingRecords) \subseteq IdsOf(written)
                /\ \A other \in EntityTypes \ {ctx[w].entityType} :
                      Document'[other] = ctx[w].currentData[other]
      ]_vars

\* C23 witness: an insert of id "b" into a collection holding "a" has written, and
\* the stored collection holds the untouched "a" and then "b".
C23_Witness ==
    /\ ctx["w1"].pc = "relRemove" /\ ctx["w1"].relFrom = "afterPersist"
    /\ ctx["w1"].persistOk
    /\ ctx["w1"].newRecords = <<R("b", 1)>>
    /\ ctx["w1"].currentData.contacts = <<R("a", 1)>>
    /\ Document.contacts = <<R("a", 1), R("b", 1)>>


\* No operation is running.
AllIdle == \A w \in Writers : ctx[w].pc = "idle"

\* The extractedAt stored for id in the collection entityType (0: not stored).
StoredAt(document, entityType, id) ==
    IF id \in IdsOf(document[entityType])
    THEN MapGet(document[entityType], id).extractedAt
    ELSE 0

\* C24 (most recent version wins over time): between operations, when only inserts
\* have written, every id of a batch whose insert returned success is stored with
\* the greatest extractedAt inserted for it; and no step of an insert, acquire or
\* release lowers the extractedAt stored for an id or removes the id.
C24_NewestVersionStored ==
    /\ [](AllIdle /\ ~hist.erased =>
            \A p \in hist.inserted :
                /\ StoredAt(Document, p[1], p[2]) >= p[3]
                /\ <<p[1], p[2], StoredAt(Document, p[1], p[2])>> \in hist.inserted)
    /\ [][\A w \in Writers :
            (ctx'[w] # ctx[w] /\ ctx[w].op \in {"insert", "acquire", "release"}) =>
                \A entityType \in EntityTypes, id \in Ids :
                    StoredAt(Document', entityType, id) >= StoredAt(Document, entityType, id)
         ]_vars

\* C24 witness: two inserts returned success, the second with an older version of
\* the id than the stored one, which is still stored.
C24_Witness ==
    /\ AllIdle /\ ~hist.erased /\ calls = 2
    /\ hist.inserted = {<<"contacts", "a", 1>>, <<"contacts", "a", 2>>, <<"contacts", "b", 1>>}
    /\ Document.contacts = <<R("a", 2), R("b", 1)>>
    /\ ctx["w1"].result = Success("insert", PNumber(1))


\* Context w is between an acquireSyncLock that returned true and its release, and
\* the timestamp it wrote is stored and younger than the timeout.
HoldsFreshLock(w) ==
    /\ ctx[w].holding /\ lockOwner = w
    /\ syncLock # 0 /\ now - syncLock < lockTimeout

\* C25 (flag follows the lock): whenever a context holds a lock that is stored and
\* not stale, the stored document has syncInProgress true, removeRecord and
\* clearAllRecords of other contexts included.
C25_FlagTrueWhileHeld ==
    \A w \in Writers : HoldsFreshLock(w) => Document.syncInProgress


\* The document write of w's running insert has been rejected.
WriteRejected(w) == ctx[w].op = "insert" /\ "insSetDoc" \in FailedCalls(w)

\* C26 (write failure): once the document write of an insert has been rejected, the
\* insert only runs releaseSyncLock and returns: it starts no attempt and writes no
\* collection, the collection it read is still stored, release has run when it
\* returns, and the result is the failure carrying the message of the write.
C26_WriteFailureReturned ==
    [][\A w \in Writers :
        (WriteRejected(w) /\ ctx'[w] # ctx[w]) =>
            /\ ctx'[w].pc \in {"relRemove", "relGetDoc", "relSetDoc", "idle"}
            /\ Document'[ctx[w].entityType] = ctx[w].currentData[ctx[w].entityType]
            /\ ctx'[w].pc = "idle" =>
                  /\ ctx'[w].result = Failure("insert", StoreError)
                  /\ ~ctx'[w].holding
                  /\ lockOwner' = w => w \in hist'.removeFailed
      ]_vars

\* C26 witness: the write of a second insert was rejected; the insert has returned
\* the failure with the message of the write, the lock key is gone, and the
\* collection is the one the first insert left.
C26_Witness ==
    /\ ctx["w1"].pc = "idle"
    /\ ctx["w1"].result = Failure("insert", StoreError)
    /\ calls = 2 /\ faultsLeft = MaxFailures - 1
    /\ syncLock = 0 /\ ~ctx["w1"].holding
    /\ Document.contacts = <<R("a", 1)>> /\ hist.inserted = {<<"contacts", "a", 1>>}


\* The document read inside the critical section of w's running insert has been
\* rejected.
ReadRejected(w) == ctx[w].op = "insert" /\ "insGetDoc" \in FailedCalls(w)

\* C27 (read failure after the acquisition): once the document read that follows a
\* successful acquireSyncLock has been rejected, the insert only runs
\* releaseSyncLock and returns the read failure: it starts no attempt, no step
\* changes a collection or lastSync, and release has run when it returns.
C27_ReadFailureReturned ==
    [][\A w \in Writers :
        (ReadRejected(w) /\ ctx'[w] # ctx[w]) =>
            /\ ctx'[w].pc \in {"relRemove", "relGetDoc", "relSetDoc", "idle"}
            /\ SameRecords(Document', Document)
            /\ ctx[w].hadLock
            /\ ctx'[w].pc = "idle" =>
                  /\ ctx'[w].result =
                        Failure("insert", "Failed to retrieve current data for deduplication")
                  /\ ~ctx'[w].holding
                  /\ lockOwner' = w => w \in hist'.removeFailed
      ]_vars

\* C27 witness: the read of a second insert was rejected after its acquisition; the
\* insert has returned the read failure, the lock key is gone, and the collection
\* the first insert left is stored.
C27_Witness ==
    /\ ctx["w1"].pc = "idle"
    /\ ctx["w1"].result =
          Failure("insert", "Failed to retrieve current data for deduplication")
    /\ calls = 2 /\ faultsLeft = MaxFailures - 1
    /\ syncLock = 0 /\ lockOwner = "none" /\ ~ctx["w1"].holding
    /\ Document.contacts = <<R("a", 1)>> /\ hist.inserted = {<<"contacts", "a", 1>>}


\* C28 (remove and clear do not use the lock): no step of removeRecord or
\* clearAllRecords changes the lock key, and when the store answers they go through
\* whatever the lock key holds: clearAllRecords stores the default document and
\* returns success, removeRecord of a stored id writes the collection without it
\* and returns success.
C28_RemoveAndClearIgnoreLock ==
    [][\A w \in Writers :
        (ctx'[w] # ctx[w] /\ ctx[w].op \in {"remove", "clear"}) =>
            /\ syncLock' = syncLock /\ lockOwner' = lockOwner
            /\ ctx'[w].holding = ctx[w].holding
            /\ faultsLeft' = faultsLeft =>
                  /\ ctx[w].pc = "clearSet" =>
                        /\ ctx'[w].result = Success("clear", PUndefined)
                        /\ crmData' = <<DEFAULT_STORAGE_STATE>>
                  /\ (ctx[w].pc = "remGetDoc"
                        /\ ctx[w].recordId \in IdsOf(Document[ctx[w].entityType]))
                        => ctx'[w].pc = "remSetDoc"
                  /\ ctx[w].pc = "remSetDoc" =>
                        /\ ctx'[w].result = Success("remove", PUndefined)
                        /\ ctx[w].recordId \notin IdsOf(Document'[ctx[w].entityType])
      ]_vars

\* C28 witness: while the lock a destroyed context wrote is stored and fresh, a
\* removeRecord has removed the only stored record and returned success; the lock
\* key is as it was.
C28_Witness ==
    /\ ctx["w1"].pc = "idle"
    /\ ctx["w1"].result = Success("remove", PUndefined)
    /\ lockOwner = "gone" /\ syncLock = 1 /\ now - syncLock < lockTimeout
    /\ crmData # <<>> /\ Document.contacts = <<>> /\ Document.lastSync = 1


\* Context w takes a step of an operation other than a direct persistData.
OperationStep(w) == ctx'[w] # ctx[w] /\ ctx[w].op \notin {"none", "persist"}

\* The successful document write of an insert of context w.
InsertWrites(w) ==
    ctx[w].op = "insert" /\ ctx[w].pc = "insSetDoc" /\ faultsLeft' = faultsLeft

\* C29 as stated (lastSync): lastSync changes only by the successful write of an
\* insert that adds at least one record, and it never decreases.
C29_LastSyncOnlyWhenAdded ==
    [][\A w \in Writers :
        (OperationStep(w) /\ Document'.lastSync # Document.lastSync) =>
            /\ InsertWrites(w)
            /\ InsertedCount(ctx[w].updatedData[ctx[w].entityType],
                             ctx[w].currentData[ctx[w].entityType]) >= 1
            /\ Document'.lastSync > Document.lastSync
      ]_vars

\* C29 amended: every successful document write of an insert, whether or not it
\* adds a record, sets lastSync to the clock reading taken in the critical section,
\* which is not below the stored value; clearAllRecords sets it to 0; no other step
\* of acquire, release, insert, remove or clear changes it.
C29_LastSyncByInsertAndClear ==
    [][\A w \in Writers :
        /\ InsertWrites(w) =>
              /\ Document'.lastSync = ctx[w].updatedData.lastSync
              /\ Document'.lastSync >= Document.lastSync
              /\ Document'.lastSync <= now
        /\ (OperationStep(w) /\ Document'.lastSync # Document.lastSync) =>
              \/ InsertWrites(w)
              \/ ctx[w].pc = "clearSet" /\ Document'.lastSync = 0
      ]_vars

\* C29 witness: an insert whose batch held only a stored record has written, and
\* lastSync is later than the value it read.
C29_Witness ==
    /\ ctx["w1"].pc = "relRemove" /\ ctx["w1"].relFrom = "afterPersist"
    /\ ctx["w1"].persistOk
    /\ ctx["w1"].newRecords = <<R("a", 1)>>
    /\ ctx["w1"].currentData.contacts = <<R("a", 1)>>
    /\ Document.contacts = <<R("a", 1)>>
    /\ Document.lastSync > ctx["w1"].currentData.lastSync


\* A message handler of context w sends its response in this step.
HandlerAnswers(w) ==
    notify.awaiting /\ ~notify'.awaiting /\ Idle(w) /\ ctx[w].result.op # "none"

\* The storage listener or the EXTRACTION_COMPLETE handler broadcasts in this step.
ListenerBroadcasts ==
    notify'.changed < notify.changed \/ notify'.complete < notify.complete

\* C30 (change propagation): every write of insertRecordsWithDeduplication,
\* removeRecord or clearAllRecords that changes the document is followed by a
\* STORAGE_UPDATED broadcast; the response a handler sends is the result of the
\* operation whether or not a receiver is attached, a successful delete or clear is
\* answered together with a broadcast, and a broadcast made by a listener changes
\* neither a response already sent nor the document.
C30_ChangePropagation ==
    /\ notify.owed ~> ~notify.owed
    /\ [][/\ \A w \in Writers :
                HandlerAnswers(w) =>
                    /\ notify'.response =
                          Response(ctx[w].result.success, ctx[w].result.errorMessage)
                    /\ ctx' = ctx /\ crmData' = crmData
                    /\ (ctx[w].result.success /\ ctx[w].result.op \in {"remove", "clear"})
                          => (~notify'.owed /\ notify'.last =
                                 IF notify.listener THEN "delivered" ELSE "dropped")
          /\ ListenerBroadcasts =>
                /\ notify'.response = notify.response
                /\ ctx' = ctx /\ crmData' = crmData
                /\ ~notify'.owed
         ]_vars

\* C30 witness: a clear that changed the document was answered with success while no
\* receiver was attached, and every queued change has been broadcast and dropped.
C30_Witness ==
    /\ notify.on /\ ~notify.awaiting /\ ~notify.listener
    /\ ctx["w1"].result = Success("clear", PUndefined)
    /\ notify.response = Response(TRUE, NoMessage)
    /\ hist.erased
    /\ notify.changed = 0 /\ ~notify.owed
    /\ notify.last = "dropped"


\* Context w performs the document write of acquireSyncLock or releaseSyncLock.
LockDocumentWrite(w) ==
    ctx[w].pc \in {"acqSetDoc", "relSetDoc"} /\ ctx'[w] # ctx[w]

\* C31 (frame of acquire and release): under every interleaving with other
\* contexts' operations, the document write of acquireSyncLock and of
\* releaseSyncLock leaves the collections and lastSync of the stored document as
\* they were right before the write.
C31_LockWritesKeepRecords ==
    [][\A w \in Writers : LockDocumentWrite(w) => SameRecords(Document', Document)]_vars


\* C32 (deletions are durable): a record that a removeRecord or clearAllRecords
\* which returned success took out of the store is not in the store again unless an
\* insert has since written a batch that holds its id.
C32_DeletionsDurable ==
    \A p \in hist.gone : p[2] \notin IdsOf(Document[p[1]])


\* Context w's releaseSyncLock removes the lock key in this step.
ReleaseRemoves(w) ==
    ctx[w].pc = "relRemove" /\ ctx'[w] # ctx[w] /\ faultsLeft' = faultsLeft

\* C33 (release removes only the caller's lock): when the lock context a acquired
\* has aged past the timeout and the stored lock timestamp is a fresh one written by
\* another context b that is inside its critical section, the releaseSyncLock of a
\* leaves the lock key as it is.
C33_ReleaseKeepsOthersLock ==
    [][\A a, b \in Writers :
          (/\ a # b /\ ReleaseRemoves(a)
           /\ ctx[a].holding /\ now - ctx[a].lockedAt >= lockTimeout
           /\ lockOwner = b /\ ctx[b].holding /\ LockBlocks(syncLock, now))
              => syncLock' = syncLock
      ]_vars


\* The acquireSyncLock that context w runs returns true in this step.
AcquireReturnsTrue(w) ==
    /\ ctx[w].pc \in {"acqGetDoc", "acqGetLock", "acqSetLock", "acqSetDoc"}
    /\ ctx'[w] # ctx[w]
    /\ \/ ctx[w].op = "acquire" /\ ctx'[w].pc = "idle" /\ ctx'[w].result.success
       \/ ctx[w].op = "insert" /\ ctx'[w].pc = "insGetDoc"

\* C34 (acquire reports success only when both writes took effect): when
\* acquireSyncLock returns true, the lock key holds the timestamp that call wrote
\* and the stored document has syncInProgress true.
C34_AcquireTrueMeansBothWritten ==
    [][\A w \in Writers :
          AcquireReturnsTrue(w) =>
              /\ syncLock' = ctx[w].currentTime /\ syncLock' # 0
              /\ crmData' # <<>> /\ Document'.syncInProgress
      ]_vars


\* The records with the given id, the existing one first, then the batch in order.
Candidates(id) ==
    LET HasId(record) == record.id = id
    IN  SelectSeq(mExisting \o mIncoming, HasId)

\* The first of the candidates that no candidate is newer than.
Winner(id) ==
    LET c == Candidates(id)
        k == CHOOSE i \in DOMAIN c :
                /\ \A j \in DOMAIN c : c[j].extractedAt <= c[i].extractedAt
                /\ \A j \in DOMAIN c : c[j].extractedAt = c[i].extractedAt => i <= j
    IN  c[k]

\* C35 (a batch that repeats an id is collapsed): for each id of the existing
\* collection or the batch the merged collection holds exactly one record, the one
\* with the greatest extractedAt among the existing record and all incoming records
\* with that id (on a tie the existing record, else the earliest of the batch), and
\* the reported count is the number of distinct ids of the batch that are new.
C35_RepeatedIdsCollapse ==
    mPhase # "input" =>
        /\ IdsOf(mMerged) = IdsOf(mExisting) \cup IdsOf(mIncoming)
        /\ \A id \in IdsOf(mMerged) :
              /\ OccursOnce(mMerged, id)
              /\ \E i \in DOMAIN mMerged : mMerged[i] = Winner(id)
        /\ InsertedCount(mMerged, mExisting) =
              Cardinality(IdsOf(mIncoming) \ IdsOf(mExisting))

\* C35 witness: a batch holds id "a" twice with the same extractedAt, the id is new,
\* and the merged collection holds the first of the two after the existing record.
C35_Witness ==
    /\ mPhase = "merged"
    /\ mExisting = <<[id |-> "b", extractedAt |-> 1, name |-> "X"]>>
    /\ mIncoming = <<[id |-> "a", extractedAt |-> 2, name |-> "X"],
                     [id |-> "a", extractedAt |-> 2, name |-> "Y"]>>
    /\ mMerged = <<[id |-> "b", extractedAt |-> 1, name |-> "X"],
                   [id |-> "a", extractedAt |-> 2, name |-> "X"]>>
    /\ InsertedCount(mMerged, mExisting) = 1


\* C36 (frame of insert and remove): with one context, no step of
\* insertRecordsWithDeduplication(entityType, batch) or removeRecord(entityType, id),
\* the lock steps of the insert and rejected store calls included, changes a
\* collection of the stored document other than the named one.
C36_OtherCollectionsKept ==
    [][\A w \in Writers :
          (ctx'[w] # ctx[w] /\ ctx[w].op \in {"insert", "remove"}) =>
              \A other \in EntityTypes \ {ctx[w].entityType} :
                  Document'[other] = Document[other]
      ]_vars

\* C36 witness: two inserts, one into deals and one into contacts, have returned
\* success, and each collection holds the record of its own insert.
C36_Witness ==
    /\ ctx["w1"].pc = "idle"
    /\ ctx["w1"].result.op = "insert" /\ ctx["w1"].result.success
    /\ ctx["w1"].prevOp = "insert"
    /\ Document.contacts = <<R("b", 1)>>
    /\ Document.deals = <<R("a", 1)>>
    /\ Document.tasks = <<>>


ReleaseSteps == {"relRemove", "relGetDoc", "relSetDoc"}

\* The merge of context w's insert throws in this step.
MergeThrows(w) ==
    /\ ctx[w].op = "insert" /\ ctx[w].pc = "insGetDoc" /\ ctx'[w] # ctx[w]
    /\ faultsLeft' = faultsLeft /\ Throws(ctx[w].newRecords)

\* The releaseSyncLock called by the catch block of context w's insert resolves.
CatchReleaseResolves(w) ==
    /\ ctx[w].op = "insert" /\ ctx[w].relFrom = "catch"
    /\ ctx[w].pc \in ReleaseSteps /\ ctx'[w].pc \notin ReleaseSteps

\* What the catch block does once its release has resolved.
CatchCounts(w) ==
    /\ ~ctx'[w].holding
    /\ IF ctx[w].attemptCount + 1 >= RETRY_ATTEMPTS
       THEN ctx'[w].pc = "idle" /\ ctx'[w].result = Failure("insert", ctx[w].caught)
       ELSE /\ ctx'[w].pc = "delay"
            /\ ctx'[w].attemptCount = ctx[w].attemptCount + 1
            /\ ctx'[w].wakeAt = now + RETRY_DELAY_MS

\* Exceptions and failed acquisitions share the budget of RETRY_ATTEMPTS, and the
\* wait before a retry ends at the loop head.
AttemptsBounded ==
    /\ [](\A w \in Writers : /\ ctx[w].acquireCalls <= RETRY_ATTEMPTS
                             /\ ctx[w].attemptCount <= RETRY_ATTEMPTS)
    /\ [][\A w \in Writers :
            /\ MergeThrows(w) =>
                  /\ ctx'[w].pc = "relRemove" /\ ctx'[w].relFrom = "catch"
                  /\ ctx'[w].caught = TypeErrorMessage
                  /\ ctx'[w].attemptCount = ctx[w].attemptCount
            /\ (ctx[w].op = "insert" /\ ctx[w].pc = "delay" /\ ctx'[w].pc # "delay") =>
                  /\ now' >= ctx[w].wakeAt
                  /\ \/ ctx'[w].pc = "acqGetDoc" /\ ctx[w].attemptCount < RETRY_ATTEMPTS
                     \/ /\ ctx[w].attemptCount = RETRY_ATTEMPTS
                        /\ ctx'[w].result = Failure("insert", LockFailureMessage)
         ]_vars

\* C37 as stated (an exception counts as one failed attempt): an exception thrown
\* inside the critical section leads to releaseSyncLock, after which the lock key the
\* insert wrote is gone, the attempt counter is one higher and the insert waits
\* RETRY_DELAY_MS and retries, or, with the budget used up, returns a failure with
\* the exception's message; failed acquisitions and exceptions together make at
\* most RETRY_ATTEMPTS attempts.
C37_ExceptionCountsAsAttempt ==
    /\ AttemptsBounded
    /\ [][\A w \in Writers :
            CatchReleaseResolves(w) => (CatchCounts(w) /\ lockOwner' # w)]_vars

\* C37 amended: the same, except that the lock key the insert wrote may still be in
\* the store when the store rejected the removal of the lock key during this insert.
C37_ExceptionCountsUnlessRemoveFailed ==
    /\ AttemptsBounded
    /\ [][\A w \in Writers :
            CatchReleaseResolves(w) =>
                (CatchCounts(w) /\ (lockOwner' = w => w \in hist'.removeFailed))]_vars

\* C37 witness: the merge of an insert threw once; the lock is released, one attempt
\* is counted and the insert waits for the backoff delay to end.
C37_Witness ==
    /\ ctx["w1"].op = "insert" /\ ctx["w1"].pc = "delay"
    /\ ctx["w1"].newRecords = <<NullRecord>>
    /\ ctx["w1"].hadLock /\ ~ctx["w1"].holding
    /\ ctx["w1"].attemptCount = 1 /\ ctx["w1"].caught = TypeErrorMessage
    /\ ctx["w1"].wakeAt = now + RETRY_DELAY_MS
    /\ syncLock = 0 /\ lockOwner = "none"


\* The operations that return a StorageOperationResult.
ResultOperations == {"retrieve", "persist", "insert", "remove", "clear"}

\* C38 (results are well formed): the result a context got from retrieveAllData,
\* persistData, insertRecordsWithDeduplication, removeRecord or clearAllRecords has
\* errorMessage null when success is true, and payload null and a message when
\* success is false, whatever store calls were rejected.
C38_ResultsWellFormed ==
    \A w \in Writers :
        LET result == ctx[w].result
        IN  result.op \in ResultOperations =>
                /\ result.success => result.errorMessage = NoMessage
                /\ ~result.success =>
                      /\ result.payload = PNull
                      /\ result.errorMessage \notin {NoMessage, Uncaught}

\* C38 witness: the store rejected the set of a direct persistData call, and the
\* call returned the failure result with the store's message and a null payload.
C38_Witness ==
    /\ ctx["w1"].pc = "idle"
    /\ ctx["w1"].result = Failure("persist", StoreError)
    /\ ctx["w1"].result.payload = PNull
    /\ faultsLeft < MaxFailures


\* A TRIGGER_EXTRACTION message is handled in this step.
TriggerStep == page'.triggers = page.triggers + 1

\* An invocation of executeExtraction of the page is in progress.
Extracting(w) == page.pc[w] # "idle"

\* C39 (one extraction at a time): at most one invocation of executeExtraction is
\* past the isExtracting test and at most one insert of the page runs; a trigger
\* handled while isExtracting is true is answered with the failure "Extraction
\* already in progress" and starts nothing; isExtracting is true exactly while an
\* extraction is in progress, and false after an extraction ends with success, with
\* a failure, with an empty harvest or with an unknown view, so that a trigger
\* handled then is not refused as already in progress.
C39_OneExtractionAtATime ==
    /\ [](/\ Cardinality({w \in Writers : Extracting(w)}) <= 1
          /\ Cardinality({w \in Writers : ctx[w].pc # "idle"}) <= 1
          /\ page.isExtracting <=> \E w \in Writers : Extracting(w))
    /\ [][/\ (TriggerStep /\ page.isExtracting) =>
                /\ page'.response = Response(FALSE, AlreadyExtracting)
                /\ page'.pc = page.pc /\ page'.isExtracting
                /\ ctx' = ctx /\ calls' = calls
          /\ (TriggerStep /\ ~page.isExtracting) =>
                /\ page'.response # Response(FALSE, AlreadyExtracting)
                /\ \/ \E w \in Writers : ~Extracting(w) /\ page'.pc[w] = "harvesting"
                   \/ /\ page'.response = Response(FALSE, UnknownView)
                      /\ ~page'.isExtracting /\ page'.pc = page.pc
          /\ \A w \in Writers :
                (Extracting(w) /\ page'.pc[w] = "idle") =>
                    (~page'.isExtracting /\ page'.response.sent)
         ]_vars

\* C39 witness: a trigger that arrived while an insert of the page was waiting for
\* its backoff delay has been answered with "Extraction already in progress", and
\* the one extraction goes on.
C39_Witness ==
    /\ page.isExtracting /\ page.pc["w1"] = "saving" /\ page.pc["w2"] = "idle"
    /\ ctx["w1"].op = "insert" /\ ctx["w1"].pc = "delay"
    /\ ctx["w2"].pc = "idle" /\ ctx["w2"].result.op = "none"
    /\ page.triggers = 2
    /\ page.response = Response(FALSE, AlreadyExtracting)

\* The clock bound is never the reason a context waits.
ClockInBound ==
    /\ now + lockTimeout <= MaxClock
    /\ \A w \in Writers : ctx[w].pc = "delay" => ctx[w].wakeAt <= MaxClock

====
